---- MODULE Spec2Model ----
(***************************************************************************)
(* Runx task orchestration: dependency graph resolution (src/graph.rs),    *)
(* execution levels (src/execution/parallel.rs) and the run orchestrator   *)
(* (src/execution/runner.rs, src/main.rs cmd_run).                         *)
(***************************************************************************)
EXTENDS Integers, Sequences, FiniteSets, TLC

(***************************************************************************)
(* Bounds of the model                                                     *)
(***************************************************************************)
\* total number of depends_on entries in a task map of the graph specification
MaxEdges == 3
\* longest list of requested task names in the graph specification
MaxRequested == 2
\* total number of depends_on entries in a task map of the run specification
RunMaxEdges == 2
\* largest worker count of a parallel run
MaxWorkers == 2
\* last hour of the clock in the cache specification
MaxClock == 26
\* largest ttl_hours of the cache specification
MaxTtl == 2
\* number of distinct input hashes in the cache specification
MaxHashes == 2
\* most rows of task_cache in the cache specification
MaxEntries == 1
\* largest max_retries in the retry specification
MaxRetries == 3
\* largest ready_timeout, in waits of recv_timeout, of the background start
\* specification
MaxReadyTimeout == 2
\* most lines the child of the background start specification writes
MaxLines == 2
\* the bytes strings are made of in the input hash specification
MaxByte == 2
\* longest command of the input hash specification
MaxCmdLen == 2
\* largest Task.retry of a run
RunMaxRetries == 1
\* most tasks of a run with retry > 0
RunMaxRetrying == 1
\* most rows of task_cache when a run starts
RunMaxCached == 1
\* a parallel run that gets to this many tasks or more is a plain one: its
\* task_cache starts empty, its CacheManager is enabled and none of its tasks
\* asks for retries
RunPlainFrom == 3
\* depends_on entries in all, and changed files, of a call of
\* find_affected_tasks_from_files
AffectedMaxEdges == 2
\* calls of record_test_history in all
MaxRecorded == 10
MaxChanged == 2

\* the keys of Config.tasks
Names == {"a", "b", "c"}
\* a task name that is not a key of Config.tasks
Ghost == "ghost"
\* what a depends_on entry or a requested name can be
Targets == Names \cup {Ghost}

(***************************************************************************)
(* Rust values                                                             *)
(***************************************************************************)
Ok(v) == [tag |-> "Ok", value |-> v]
Err(m) == [tag |-> "Err", msg |-> m]
Unset == [tag |-> "Unset"]
None == [tag |-> "None"]
Some(v) == [tag |-> "Some", value |-> v]

\* the iteration orders of a HashSet S (or of the keys S of a HashMap): any
\* enumeration of S
Orders(S) ==
    {o \in [1..Cardinality(S) -> S] : \A i, j \in 1..Cardinality(S) : o[i] = o[j] => i = j}

\* the elements of S met while iterating in the order o
IterOrder(o, S) == SelectSeq(o, LAMBDA n : n \in S)

SeqToSet(s) == {s[i] : i \in 1..Len(s)}

RECURSIVE Flatten(_)
Flatten(ss) == IF ss = <<>> THEN <<>> ELSE Head(ss) \o Flatten(Tail(ss))

(***************************************************************************)
(* src/graph.rs                                                            *)
(***************************************************************************)
\* Config::get_task(name).is_some()
HasTask(T, name) == name \in DOMAIN T

\* the dependencies of a found task that are pushed on the queue (lines 76-81)
PushDeps(T, name, required) ==
    SelectSeq(T[name].depends_on, LAMBDA dep : dep \notin required)

\* what the loop does with a name that get_task does not find (lines 82-84)
MissingIgnored(T, required, name, rest) == [done |-> FALSE, required |-> required, queue |-> rest]
Missing(T, required, name, rest) ==
    [done |-> TRUE, result |-> Err(<<"Task not found", name>>)]

\* one iteration of the while loop of collect_required_tasks (lines 70-85)
CollectStep(T, required, queue) ==
    LET name == Head(queue)
        rest == Tail(queue)
    IN  IF name \in required
        THEN [done |-> FALSE, required |-> required, queue |-> rest]
        ELSE IF HasTask(T, name)
             THEN [done |-> FALSE, required |-> required \cup {name},
                   queue |-> rest \o PushDeps(T, name, required \cup {name})]
             ELSE Missing(T, required, name, rest)

RECURSIVE CollectLoop(_, _, _)
CollectLoop(T, required, queue) ==
    IF queue = <<>>
    THEN Ok(required)
    ELSE LET s == CollectStep(T, required, queue)
         IN  IF s.done THEN s.result ELSE CollectLoop(T, s.required, s.queue)

collect_required_tasks(T, task_names) == CollectLoop(T, {}, task_names)

\* number of entries of depends_on that lie in the required set (lines 20-24)
InDegreeOf(T, required, name) ==
    Len(SelectSeq(T[name].depends_on, LAMBDA dep : dep \in required))

\* in_degree after the two for loops (lines 15-32)
InDegree(T, required) == [name \in required |-> InDegreeOf(T, required, name)]

\* dependents[dep] after the loops: one push of `name` per entry dep of its
\* depends_on, the names visited in the iteration order of required_tasks
Dependents(T, required, visit) ==
    [dep \in required |->
        Flatten([i \in 1..Len(visit) |->
            LET name == visit[i]
            IN  [k \in 1..Len(SelectSeq(T[name].depends_on, LAMBDA d : d = dep)) |-> name]])]

\* the test that queues a dependent after its in-degree was decremented (line 50)
ReadyAlways(deg) == TRUE
Ready(deg) == deg = 0

\* the inner for loop over dependents[current] (lines 47-54)
RECURSIVE Release(_, _, _)
Release(deps, in_degree, queue) ==
    IF deps = <<>>
    THEN [in_degree |-> in_degree, queue |-> queue]
    ELSE LET dependent == Head(deps)
             deg == in_degree[dependent] - 1
         IN  Release(Tail(deps),
                     [in_degree EXCEPT ![dependent] = deg],
                     IF Ready(deg) THEN Append(queue, dependent) ELSE queue)

\* the while loop of Kahn's algorithm (lines 43-56)
RECURSIVE Kahn(_, _, _, _)
Kahn(queue, in_degree, dependents, result) ==
    IF queue = <<>>
    THEN result
    ELSE LET current == Head(queue)
             r == Release(dependents[current], in_degree, Tail(queue))
         IN  Kahn(r.queue, r.in_degree, dependents, Append(result, current))

\* the final length check (lines 58-62)
SortResultUnchecked(result, required) == Ok(result)
SortResult(result, required) ==
    IF Len(result) # Cardinality(required)
    THEN Err(<<"Circular dependency detected in task graph">>)
    ELSE Ok(result)

\* topological_sort after collect_required_tasks returned the set `required`
\* (lines 11-62); o1 is the iteration order of required_tasks, o2 that of
\* in_degree
SortRequired(T, required, o1, o2) ==
    LET in_degree == InDegree(T, required)
        dependents == Dependents(T, required, o1)
        queue == IterOrder(o2, {n \in required : in_degree[n] = 0})
    IN  SortResult(Kahn(queue, in_degree, dependents, <<>>), required)

\* everything topological_sort can return, over the hash iteration orders
topological_sort(T, task_names) ==
    LET c == collect_required_tasks(T, task_names)
    IN  IF c.tag = "Err"
        THEN {c}
        ELSE {SortRequired(T, c.value, o1, o2) : o1, o2 \in Orders(c.value)}

(***************************************************************************)
(* src/execution/parallel.rs                                               *)
(***************************************************************************)
\* the tasks the levels are computed over (lines 19-22, 46): the closure in
\* the order topological_sort returned it
LevelTasksRequestedOnly(all_tasks, task_names) == task_names
LevelTasks(all_tasks, task_names) == all_tasks

\* in_degree after the loops of lines 28-42
LevelInDegree(T, all_tasks) ==
    LET task_set == SeqToSet(all_tasks)
    IN  [task_name \in task_set |->
            Len(SelectSeq(T[task_name].depends_on, LAMBDA dep : dep \in task_set))]

\* dependents after the loops of lines 28-42 (all_tasks is a Vec: its order is fixed)
LevelDependents(T, all_tasks) ==
    LET task_set == SeqToSet(all_tasks)
    IN  [dep \in task_set |->
            Flatten([i \in 1..Len(all_tasks) |->
                LET task_name == all_tasks[i]
                IN  [k \in 1..Len(SelectSeq(T[task_name].depends_on, LAMBDA d : d = dep)) |-> task_name]])]

\* the filter of line 52
InLevelUpToOne(in_degree, task) == in_degree[task] <= 1
InLevel(in_degree, task) == in_degree[task] = 0

\* usize::saturating_sub(1) (line 66)
SaturatingDec(degree) == IF degree = 0 THEN 0 ELSE degree - 1

\* the for loop over dependents[task] (lines 63-69)
RECURSIVE DecrementAll(_, _)
DecrementAll(deps, in_degree) ==
    IF deps = <<>>
    THEN in_degree
    ELSE DecrementAll(Tail(deps),
                      [in_degree EXCEPT ![Head(deps)] = SaturatingDec(in_degree[Head(deps)])])

\* the for loop over current_level (lines 61-70): the in-degrees afterwards
RECURSIVE RemoveLevel(_, _, _)
RemoveLevel(current_level, dependents, in_degree) ==
    IF current_level = <<>>
    THEN in_degree
    ELSE RemoveLevel(Tail(current_level), dependents,
                     DecrementAll(dependents[Head(current_level)], in_degree))

\* only the first task without a pending dependency is taken
FirstReadyOnly(remaining, in_degree, o) ==
    LET ready == IterOrder(o, {t \in remaining : InLevel(in_degree, t)})
    IN  IF ready = <<>> THEN <<>> ELSE <<Head(ready)>>

\* current_level: remaining.iter().filter(..).cloned().collect() (lines 50-54)
CurrentLevel(remaining, in_degree, o) ==
    IterOrder(o, {t \in remaining : InLevel(in_degree, t)})

\* the while loop of lines 48-73; o is the iteration order of `remaining`
RECURSIVE LevelLoop(_, _, _, _, _)
LevelLoop(remaining, in_degree, dependents, levels, o) ==
    IF remaining = {}
    THEN Ok(levels)
    ELSE LET current_level == CurrentLevel(remaining, in_degree, o)
         IN  IF current_level = <<>>
             THEN Err(<<"Circular dependency detected">>)
             ELSE LevelLoop(remaining \ SeqToSet(current_level),
                            RemoveLevel(current_level, dependents, in_degree),
                            dependents,
                            Append(levels, current_level), o)

\* calculate_execution_levels after its call of topological_sort returned s
\* (lines 19-76); o is the iteration order of `remaining`
LevelsFrom(T, task_names, s, o) ==
    IF s.tag = "Err"
    THEN s
    ELSE LET all_tasks == s.value
         IN  LevelLoop(SeqToSet(LevelTasks(all_tasks, task_names)),
                       LevelInDegree(T, all_tasks),
                       LevelDependents(T, all_tasks),
                       <<>>, o)

\* everything calculate_execution_levels can return
calculate_execution_levels(T, task_names) ==
    UNION {IF s.tag = "Err"
           THEN {s}
           ELSE {LevelsFrom(T, task_names, s, o) : o \in Orders(SeqToSet(s.value))} :
           s \in topological_sort(T, task_names)}

\* filter_parallel_tasks (lines 79-99)
IsParallelDespiteBackground(T, task_name, profile_parallel) ==
    T[task_name].parallel \/ profile_parallel
IsParallelTask(T, task_name, profile_parallel) ==
    (T[task_name].parallel \/ profile_parallel) /\ ~T[task_name].background

filter_parallel_tasks(T, level, profile_parallel) ==
    [parallel |-> SelectSeq(level, LAMBDA t : HasTask(T, t) /\ IsParallelTask(T, t, profile_parallel)),
     sequential |-> SelectSeq(level, LAMBDA t : HasTask(T, t) /\ ~IsParallelTask(T, t, profile_parallel))]

(***************************************************************************)
(* src/task.rs                                                             *)
(***************************************************************************)
\* how execute_task ends (task.rs 61-111): Ok with the result of a command
\* that exited with or without success, or the Err of a command that could
\* not be run
Outcomes == {"passed", "failed", "errored"}

(***************************************************************************)
(* src/db/cache.rs, src/execution/cache.rs                                 *)
(***************************************************************************)
\* the clock counts hours; a day has 24 of them
HoursPerDay == 24

\* the codes of the two characters in which the text of an RFC 3339 timestamp
\* ("2024-05-01T10:00:00+00:00") and the text of SQLite's datetime('now')
\* ("2024-05-01 10:00:00") differ at the first position after the date
CharT == 84
CharSpace == 32

\* chrono's DateTime::to_rfc3339 (db/cache.rs 73-74): date, 'T', time of day
to_rfc3339(t) == <<t \div HoursPerDay, CharT, t % HoursPerDay>>

\* DateTime::parse_from_rfc3339 (db/cache.rs 41-46)
parse_from_rfc3339(text) == text[1] * HoursPerDay + text[3]

\* SQLite's datetime('now') at the hour t (db/cache.rs 29): date, ' ', time of
\* day
datetime_now(t) == <<t \div HoursPerDay, CharSpace, t % HoursPerDay>>

\* SQLite's > on two TEXT values: bytewise, left to right. The zero-padded
\* digit fields of a date or a time of day compare as their numbers do.
RECURSIVE TextGreater(_, _)
TextGreater(x, y) ==
    IF x = <<>>
    THEN FALSE
    ELSE IF y = <<>>
         THEN TRUE
         ELSE IF Head(x) # Head(y)
              THEN Head(x) > Head(y)
              ELSE TextGreater(Tail(x), Tail(y))

\* a row of task_cache (db/schema.rs 131-140); UNIQUE(task_name, input_hash)
\* makes the table a function of that pair
CacheEntry(status, created_at, expires_at) ==
    [status |-> status, created_at |-> created_at, expires_at |-> expires_at]

\* the WHERE clause of get_cache_entry on a row that has the key
\* (db/cache.rs 29); set_cache_entry never writes a NULL expires_at
NotExpired(entry, now) == TextGreater(entry.expires_at, datetime_now(now))

\* Database::get_cache_entry (db/cache.rs 24-51)
get_cache_entry(table, task_name, input_hash, now) ==
    LET key == <<task_name, input_hash>>
    IN  IF key \in DOMAIN table /\ NotExpired(table[key], now)
        THEN Some(table[key])
        ELSE None

\* Database::set_cache_entry (db/cache.rs 54-79): INSERT OR REPLACE
set_cache_entry(table, task_name, input_hash, status, ttl_hours, now) ==
    LET key == <<task_name, input_hash>>
        expires_at == now + ttl_hours
    IN  [k \in DOMAIN table \cup {key} |->
            IF k = key
            THEN CacheEntry(status, to_rfc3339(now), to_rfc3339(expires_at))
            ELSE table[k]]

\* Database::invalidate_cache (db/cache.rs 82-88)
invalidate_cache(table, task_name) ==
    [k \in {k2 \in DOMAIN table : k2[1] # task_name} |-> table[k]]

\* CachedResult (execution/cache.rs 97-102)
CachedResult(status) == [status |-> status]

\* check_cache (execution/cache.rs 70-83)
check_cache(table, task_name, input_hash, now) ==
    LET entry == get_cache_entry(table, task_name, input_hash, now)
    IN  IF entry.tag = "Some" THEN Some(CachedResult(entry.value.status)) ELSE None

\* store_cache (execution/cache.rs 86-95)
store_cache(table, task_name, input_hash, status, ttl_hours, now) ==
    set_cache_entry(table, task_name, input_hash, status, ttl_hours, now)

\* CacheManager::check (execution/cache.rs 123-130); hash is what
\* calculate_input_hash computes at the call
CacheManagerCheck(cm, table, task_name, hash, now) ==
    IF ~cm.enabled THEN None ELSE check_cache(table, task_name, hash, now)

\* CacheManager::store (execution/cache.rs 133-140): the table afterwards
CacheManagerStore(cm, table, task_name, hash, status, now) ==
    IF ~cm.enabled
    THEN table
    ELSE store_cache(table, task_name, hash, status, cm.ttl_hours, now)

\* a String as its bytes
Bytes == 1..MaxByte

\* Ord of String and of PathBuf: bytewise, a proper prefix is less
RECURSIVE BytesLess(_, _)
BytesLess(x, y) ==
    IF y = <<>>
    THEN FALSE
    ELSE IF x = <<>>
         THEN TRUE
         ELSE IF Head(x) # Head(y)
              THEN Head(x) < Head(y)
              ELSE BytesLess(Tail(x), Tail(y))

\* Vec::sort on strings or paths (execution/cache.rs 28 and 47)
RECURSIVE InsertSorted(_, _)
InsertSorted(x, sorted_vec) ==
    IF sorted_vec = <<>>
    THEN <<x>>
    ELSE IF BytesLess(Head(sorted_vec), x)
         THEN <<Head(sorted_vec)>> \o InsertSorted(x, Tail(sorted_vec))
         ELSE <<x>> \o sorted_vec

RECURSIVE SortVec(_)
SortVec(v) == IF v = <<>> THEN <<>> ELSE InsertSorted(Head(v), SortVec(Tail(v)))

\* the order in which the env entries are fed to the hasher
\* (execution/cache.rs 27-28): the keys as the HashMap iterates them, sorted
KeysAsIterated(iteration) == iteration
EnvKeyOrder(iteration) == SortVec(iteration)

\* the bytes of the command fed to the hasher (execution/cache.rs 19)
CommandOmitted(task) == <<>>
CommandBytes(task) == task.cmd

\* the bytes of the env entries (execution/cache.rs 29-32)
EnvBytes(task, iteration) ==
    LET keys == EnvKeyOrder(iteration)
    IN  Flatten([i \in 1..Len(keys) |-> keys[i] \o task.env[keys[i]]])

\* the bytes of the files one pattern matches (execution/cache.rs 46-59);
\* `matched` is what glob::glob yields, fs maps a path to the file's content
PatternBytes(matched, fs) ==
    LET sorted_paths == SortVec(matched)
    IN  Flatten([i \in 1..Len(sorted_paths) |-> sorted_paths[i] \o fs[sorted_paths[i]]])

\* all that calculate_input_hash feeds to the hasher, in order
\* (execution/cache.rs 13-62); task.patterns is watch chained with inputs
HashedBytes(task, task_name, iteration, fs) ==
    task_name
        \o CommandBytes(task)
        \o (IF task.cwd.tag = "Some" THEN task.cwd.value ELSE <<>>)
        \o EnvBytes(task, iteration)
        \o Flatten([i \in 1..Len(task.patterns) |-> PatternBytes(task.patterns[i], fs)])

\* Sha256 and hex::encode (execution/cache.rs 65-66): the digest is taken to
\* tell any two byte streams apart
Sha256Hex(bytes) == [sha256 |-> bytes]

\* calculate_input_hash (execution/cache.rs 12-67)
calculate_input_hash(task, task_name, iteration, fs) ==
    Sha256Hex(HashedBytes(task, task_name, iteration, fs))

(***************************************************************************)
(* src/db/flaky.rs: the tables test_history and flaky_tests                *)
(***************************************************************************)
\* a REAL (an f64) that is a quotient of integers, kept exact
Whole(n) == [num |-> n, den |-> 1]
RealLess(x, y) == x.num * y.den < y.num * x.den
RealEq(x, y) == x.num * y.den = y.num * x.den
\* ABS(x - y), (x - y).abs()
RealDistance(x, y) ==
    LET d == x.num * y.den - y.num * x.den
    IN  [num |-> IF d < 0 THEN -d ELSE d, den |-> x.den * y.den]

\* CAST(pass_count AS REAL) / CAST(total_runs AS REAL) * 100, and
\* (pass_count as f64) / (total as f64) * 100.0
PassRate(pass_count, total_runs) == [num |-> pass_count * 100, den |-> total_runs]

\* the score is computed from the columns as they were before the UPDATE
StaleScore(row, pass) == PassRate(row.pass_count, row.total_runs)

\* flaky_score of the UPDATE (db/flaky.rs 88)
UpdatedScore(row, pass) == PassRate(row.pass_count + pass, row.total_runs + 1)

\* update_flaky_stats (db/flaky.rs 72-118) on table flaky_tests
update_flaky_stats(table, test_name, test_status) ==
    LET is_pass == test_status = "passed"
        pass == IF is_pass THEN 1 ELSE 0
        fail == IF is_pass THEN 0 ELSE 1
        row == table[test_name]
    IN  IF row # None
        THEN [table EXCEPT ![test_name] =
                [row EXCEPT !.total_runs = @ + 1,
                            !.pass_count = @ + pass,
                            !.fail_count = @ + fail,
                            !.flaky_score = UpdatedScore(row, pass)]]
        ELSE [table EXCEPT ![test_name] =
                [flaky_score |-> IF is_pass THEN Whole(100) ELSE Whole(0),
                 total_runs |-> 1, pass_count |-> pass, fail_count |-> fail,
                 quarantined |-> FALSE]]

\* record_test_history (db/flaky.rs 40-69)
record_test_history(db, test_name, test_status) ==
    [test_history |-> [db.test_history EXCEPT ![<<test_name, test_status>>] = @ + 1],
     flaky_tests |-> update_flaky_stats(db.flaky_tests, test_name, test_status)]

\* the WHERE clause of get_flaky_tests (db/flaky.rs 125)
FlakyRow(row) ==
    /\ row # None
    /\ row.total_runs >= 3
    /\ RealLess(Whole(20), row.flaky_score)
    /\ RealLess(row.flaky_score, Whole(80))

\* get_flaky_tests (db/flaky.rs 121-148): the test names of the rows it can
\* return, ORDER BY ABS(flaky_score - 50) ASC leaving the order of ties open
get_flaky_tests(db, limit) ==
    LET listed == {n \in DOMAIN db.flaky_tests : FlakyRow(db.flaky_tests[n])}
        Distance(n) == RealDistance(db.flaky_tests[n].flaky_score, Whole(50))
        ordered == {o \in Orders(listed) :
                        \A i, j \in 1..Len(o) :
                            i < j => ~RealLess(Distance(o[j]), Distance(o[i]))}
    IN  {SubSeq(o, 1, IF Len(o) < limit THEN Len(o) ELSE limit) : o \in ordered}

\* quarantine_test and unquarantine_test (db/flaky.rs 180-197)
set_quarantined(db, test_name, quarantined) ==
    IF db.flaky_tests[test_name] = None
    THEN db
    ELSE [db EXCEPT !.flaky_tests[test_name].quarantined = quarantined]

\* is_test_quarantined (db/flaky.rs 200-208)
is_test_quarantined(db, test_name) ==
    db.flaky_tests[test_name] # None /\ db.flaky_tests[test_name].quarantined

\* calculate_flaky_score (db/flaky.rs 240-253)
calculate_flaky_score(db, test_name) ==
    LET row == db.flaky_tests[test_name]
    IN  IF row = None \/ row.total_runs = 0
        THEN Whole(100)
        ELSE PassRate(row.pass_count, row.total_runs)

\* three runs are taken as enough
EnoughToList(total_runs) == total_runs >= 3

\* test.total_runs >= 10 (retry.rs 210)
EnoughRuns(total_runs) == total_runs >= 10

\* should_quarantine (retry.rs 195-217): what it can return
should_quarantine(db, test_name, threshold) ==
    LET score == calculate_flaky_score(db, test_name)
        is_flaky == RealLess(Whole(20), score) /\ RealLess(score, Whole(80))
    IN  IF ~is_flaky
        THEN {FALSE}
        ELSE {IF test_name \in SeqToSet(flaky_tests)
                  /\ EnoughRuns(db.flaky_tests[test_name].total_runs)
              THEN RealLess(RealDistance(db.flaky_tests[test_name].flaky_score, Whole(50)),
                            Whole(threshold))
              ELSE FALSE :
              flaky_tests \in get_flaky_tests(db, 100)}

(***************************************************************************)
(* src/execution/retry.rs                                                  *)
(***************************************************************************)
\* RetryConfig::from(&Task) (retry.rs 30-38)
RetryConfigFrom(task) ==
    [max_retries |-> task.retry, delay_ms |-> task.retry_delay_ms,
     exponential_backoff |-> FALSE]

\* the sleep before attempt number `attempts` > 1 (retry.rs 54-58)
RetryDelay(attempts, retry_config) ==
    IF retry_config.exponential_backoff
    THEN retry_config.delay_ms * 2 ^ (attempts - 2)
    ELSE retry_config.delay_ms

\* the test that leaves the loop after a failed attempt (retry.rs 89)
RetryExhaustedEarly(attempts, retry_config) == attempts >= retry_config.max_retries
RetryExhausted(attempts, retry_config) == attempts > retry_config.max_retries

(***************************************************************************)
(* State                                                                   *)
(***************************************************************************)
VARIABLES
    tasks,                  \* Config.tasks: name -> Task
    requested,              \* the task names a caller asks for
    options,                \* RunOptions merged with the profile (cmd_run)
    pc,                     \* where the caller is
    collected,              \* result of collect_required_tasks
    sorted,                 \* result of topological_sort (execution_order)
    plan,                   \* result of calculate_execution_levels (levels)
    level_idx,              \* index of the level being run (1-based; 0: none)
    parallel_tasks,         \* parallel batch of the current level
    sequential,             \* tasks the sequential loop iterates over
    seq_idx,                \* position of the sequential loop
    permits,                \* permits available in the semaphore
    holding,                \* spawned futures that hold a permit
    status,                 \* per task: what the run did with it so far
    results,                \* Vec<TaskResult> of execute_tasks
    counters,               \* passed / failed / cached
    background_processes,   \* Vec<BackgroundProcess>, by task name
    alive,                  \* background processes spawned and not yet killed
    start_log,              \* the order in which background processes were started
    kill_log,               \* the order in which background processes were killed
    attempt_log,            \* per task: how each execution of its command ended
    ret,                    \* what the call returned: run_task / run_tasks /
                            \* run_all, or execute_with_retry
    exit_code,              \* exit status of the process (cmd_run)
    task_cache,             \* table task_cache: <<task_name, input_hash>> -> row
    clock,                  \* the time, in hours
    cache_manager,          \* CacheManager: enabled, ttl_hours
    cache_ret,              \* the last CacheManager::check: its arguments and result
    retry_config,           \* RetryConfig handed to execute_with_retry
    retry_state,            \* locals of execute_with_retry: attempts, last_result
    bg_start,               \* start_background_task: the child, its two pipes,
                            \* the reader threads, the channel, the time waited
    hashing,                \* calculate_input_hash: the task and the files it is
                            \* called on, the keys it returned
    affected_call,          \* find_affected_tasks_from_files: the changed files
                            \* it is called on, what it returned
    flaky_db,               \* tables test_history and flaky_tests
    flaky_ret               \* the last query of the flaky tables: its arguments
                            \* and result

inputVars == <<tasks, requested, options>>
graphVars == <<collected, sorted, plan>>
runVars == <<level_idx, parallel_tasks, sequential, seq_idx, permits, holding,
             status, results, counters, background_processes, alive, start_log,
             kill_log, attempt_log, ret, exit_code>>
cacheVars == <<task_cache, clock, cache_manager, cache_ret>>
retryVars == <<retry_config, retry_state>>
startVars == <<bg_start>>
hashVars == <<hashing>>
affectedVars == <<affected_call>>
flakyVars == <<flaky_db, flaky_ret>>
vars == <<tasks, requested, options, pc, collected, sorted, plan, level_idx,
          parallel_tasks, sequential, seq_idx, permits, holding, status,
          results, counters, background_processes, alive, start_log, kill_log,
          attempt_log, ret, exit_code, task_cache, clock, cache_manager, cache_ret,
          retry_config, retry_state, bg_start, hashing,
          affected_call, flaky_db, flaky_ret>>

(***************************************************************************)
(* Inputs                                                                  *)
(***************************************************************************)
SeqsOfLen(S, k) == [1..k -> S]
SeqsUpTo(S, k) == UNION {SeqsOfLen(S, i) : i \in 0..k}

\* default_retry_delay (config.rs 241-243)
DefaultRetryDelayMs == 1000

\* serde defaults of Task.background, Task.parallel, Task.retry and
\* Task.retry_delay_ms
PlainTask(deps) ==
    [depends_on |-> deps, background |-> FALSE, parallel |-> FALSE, retry |-> 0,
     retry_delay_ms |-> DefaultRetryDelayMs]

\* every task map over Names whose depends_on lists have at most n entries in all
DepMaps(n) ==
    UNION {{[a |-> x, b |-> y, c |-> z] :
                x \in SeqsOfLen(Targets, la), y \in SeqsOfLen(Targets, lb),
                z \in SeqsOfLen(Targets, n2 - la - lb)} :
           <<la, lb, n2>> \in {t \in (0..n) \X (0..n) \X (0..n) : t[1] + t[2] <= t[3]}}

IdleRun ==
    /\ level_idx = 0
    /\ parallel_tasks = <<>>
    /\ sequential = <<>>
    /\ seq_idx = 0
    /\ permits = 0
    /\ holding = {}
    /\ status = [n \in Names |-> "none"]
    /\ results = <<>>
    /\ counters = [passed |-> 0, failed |-> 0, cached |-> 0]
    /\ background_processes = <<>>
    /\ alive = {}
    /\ start_log = <<>>
    /\ kill_log = <<>>
    /\ attempt_log = [n \in Names |-> <<>>]
    /\ ret = Unset
    /\ exit_code = -1

NoOptions ==
    [parallel |-> FALSE, profile_parallel |-> FALSE, workers |-> 0, fail_fast |-> FALSE]

\* default_cache_ttl (config.rs 156-158)
DefaultTtlHours == 24

\* an empty task_cache
EmptyTable == [k \in {} |-> None]

\* no cache call was made
IdleCache ==
    /\ task_cache = EmptyTable
    /\ clock = 0
    /\ cache_manager = [enabled |-> FALSE, ttl_hours |-> DefaultTtlHours]
    /\ cache_ret = Unset

\* execute_with_retry at its entry (retry.rs 47-48)
RetryStart == [attempts |-> 0, last_result |-> None, slept |-> 0]

\* execute_with_retry was not called
IdleRetry ==
    /\ retry_config = RetryConfigFrom(PlainTask(<<>>))
    /\ retry_state = RetryStart

\* no background task is being started
IdleStart == bg_start = [child |-> "none"]

\* no input hash is being computed
IdleHash == hashing = [calls |-> <<>>]
IdleAffected == affected_call = [result |-> Unset]

\* the names record_test_history is called with, and the statuses
TestNames == {"a", "b"}
HistoryStatuses == {"passed", "failed", "skipped"}

\* the tables right after they were created (db/schema.rs 97-125):
\* test_history as the number of its rows with a given test_name and status,
\* flaky_tests by its UNIQUE column test_name
EmptyFlakyDb ==
    [test_history |-> [r \in TestNames \X HistoryStatuses |-> 0],
     flaky_tests |-> [n \in TestNames |-> None]]

IdleFlaky ==
    /\ flaky_db = EmptyFlakyDb
    /\ flaky_ret = Unset

(***************************************************************************)
(* The graph functions applied to every bounded input                      *)
(***************************************************************************)
InitGraph ==
    /\ tasks \in {[n \in Names |-> PlainTask(d[n])] : d \in DepMaps(MaxEdges)}
    /\ requested \in SeqsUpTo(Targets, MaxRequested) \ {<<>>}
    /\ options = NoOptions
    /\ pc = "graph"
    /\ collected = Unset
    /\ sorted = Unset
    /\ plan = Unset
    /\ IdleRun
    /\ IdleCache
    /\ IdleRetry
    /\ IdleStart
    /\ IdleHash
    /\ IdleAffected
    /\ IdleFlaky

CallCollectRequiredTasks ==
    /\ pc = "graph"
    /\ collected.tag = "Unset"
    /\ collected' = collect_required_tasks(tasks, requested)
    /\ UNCHANGED <<inputVars, pc, sorted, plan, runVars, cacheVars, retryVars, startVars, hashVars, affectedVars, flakyVars>>

CallTopologicalSort ==
    /\ pc = "graph"
    /\ collected.tag # "Unset"
    /\ sorted.tag = "Unset"
    /\ sorted' \in topological_sort(tasks, requested)
    /\ UNCHANGED <<inputVars, pc, collected, plan, runVars, cacheVars, retryVars, startVars, hashVars, affectedVars, flakyVars>>

CallCalculateExecutionLevels ==
    /\ pc = "graph"
    /\ sorted.tag # "Unset"
    /\ plan.tag = "Unset"
    /\ plan' \in calculate_execution_levels(tasks, requested)
    /\ UNCHANGED <<inputVars, pc, collected, sorted, runVars, cacheVars, retryVars, startVars, hashVars, affectedVars, flakyVars>>

NextGraph ==
    \/ CallCollectRequiredTasks
    \/ CallTopologicalSort
    \/ CallCalculateExecutionLevels

SpecGraph == InitGraph /\ [][NextGraph]_vars

(***************************************************************************)
(* The cache applied to bounded sequences of calls                         *)
(***************************************************************************)
\* the task names and the input hashes of the calls
CacheNames == {"a", "b"}
Hashes == 1..MaxHashes

NoRun ==
    /\ tasks = [n \in Names |-> PlainTask(<<>>)]
    /\ options = NoOptions
    /\ collected = Unset
    /\ sorted = Unset
    /\ plan = Unset
    /\ IdleRun

InitCache ==
    /\ NoRun
    /\ requested = <<>>
    /\ pc = "cache"
    /\ task_cache = EmptyTable
    /\ clock = 0
    /\ cache_manager \in [enabled : BOOLEAN, ttl_hours : 0..MaxTtl]
    /\ cache_ret = Unset
    /\ IdleRetry
    /\ IdleStart
    /\ IdleHash
    /\ IdleAffected
    /\ IdleFlaky

\* CacheManager::store(task, task_name, base_dir, status, duration_ms)
CallStore ==
    /\ pc = "cache"
    /\ \E task_name \in CacheNames, hash \in Hashes, st \in {"passed", "failed"} :
            /\ \/ <<task_name, hash>> \in DOMAIN task_cache
               \/ Cardinality(DOMAIN task_cache) < MaxEntries
            /\ task_cache' = CacheManagerStore(cache_manager, task_cache, task_name, hash,
                                               st, clock)
    /\ cache_ret' = Unset
    /\ UNCHANGED <<inputVars, pc, graphVars, runVars, clock, cache_manager, retryVars, startVars, hashVars, affectedVars, flakyVars>>

\* CacheManager::check(task, task_name, base_dir)
CallCheck ==
    /\ pc = "cache"
    /\ \E task_name \in CacheNames, hash \in Hashes :
            cache_ret' = [task_name |-> task_name, input_hash |-> hash, at |-> clock,
                          result |-> CacheManagerCheck(cache_manager, task_cache, task_name,
                                                       hash, clock)]
    /\ UNCHANGED <<inputVars, pc, graphVars, runVars, task_cache, clock, cache_manager,
                   retryVars, startVars, hashVars, affectedVars, flakyVars>>

\* CacheManager::invalidate(task_name)
CallInvalidate ==
    /\ pc = "cache"
    /\ \E task_name \in CacheNames :
            /\ \E k \in DOMAIN task_cache : k[1] = task_name
            /\ task_cache' = invalidate_cache(task_cache, task_name)
    /\ cache_ret' = Unset
    /\ UNCHANGED <<inputVars, pc, graphVars, runVars, clock, cache_manager, retryVars, startVars, hashVars, affectedVars, flakyVars>>

\* an hour passes
Tick ==
    /\ pc = "cache"
    /\ clock < MaxClock
    /\ clock' = clock + 1
    /\ cache_ret' = Unset
    /\ UNCHANGED <<inputVars, pc, graphVars, runVars, task_cache, cache_manager, retryVars, startVars, hashVars, affectedVars, flakyVars>>

NextCache ==
    \/ CallStore
    \/ CallCheck
    \/ CallInvalidate
    \/ Tick

SpecCache == InitCache /\ [][NextCache]_vars

(***************************************************************************)
(* execute_with_retry applied to every bounded RetryConfig                 *)
(***************************************************************************)
\* the TaskResult of one attempt; the number of the attempt stands for what
\* tells the results of two attempts apart (duration_ms)
AttemptResult(name, success, attempt) ==
    [name |-> name, success |-> success, attempt |-> attempt]

InitRetry ==
    /\ NoRun
    /\ requested \in {<<n>> : n \in Names}
    /\ pc = "retry"
    /\ IdleCache
    /\ retry_config \in [max_retries : 0..MaxRetries, delay_ms : {DefaultRetryDelayMs},
                          exponential_backoff : BOOLEAN]
    /\ retry_state = RetryStart
    /\ IdleStart
    /\ IdleHash
    /\ IdleAffected
    /\ IdleFlaky

\* one round of the loop of execute_with_retry (retry.rs 50-92) and, when the
\* loop is left, the return (retry.rs 84, 95, and 72 for an Err of execute_task)
RetryAttempt ==
    /\ pc = "retry"
    /\ LET name == requested[1]
           attempts == retry_state.attempts + 1
           slept == IF attempts > 1
                    THEN retry_state.slept + RetryDelay(attempts, retry_config)
                    ELSE retry_state.slept
       IN  \E outcome \in Outcomes :
            /\ attempt_log' = [attempt_log EXCEPT ![name] = Append(@, outcome)]
            /\ IF outcome = "errored"
               THEN /\ retry_state' = [retry_state EXCEPT !.attempts = attempts,
                                                          !.slept = slept]
                    /\ ret' = Err(<<"Failed to execute task", name>>)
                    /\ pc' = "retried"
               ELSE IF outcome = "passed"
               THEN /\ retry_state' = [retry_state EXCEPT !.attempts = attempts,
                                                          !.slept = slept]
                    /\ ret' = Ok(AttemptResult(name, TRUE, attempts))
                    /\ pc' = "retried"
               ELSE /\ retry_state' =
                            [attempts |-> attempts,
                             last_result |-> Some(AttemptResult(name, FALSE, attempts)),
                             slept |-> slept]
                    /\ IF RetryExhausted(attempts, retry_config)
                       THEN /\ ret' = Ok(retry_state'.last_result.value)
                            /\ pc' = "retried"
                       ELSE UNCHANGED <<ret, pc>>
    /\ UNCHANGED <<inputVars, graphVars, level_idx, parallel_tasks, sequential, seq_idx,
                   permits, holding, status, results, counters, background_processes,
                   alive, start_log, kill_log, exit_code, cacheVars, retry_config,
                   startVars, hashVars, affectedVars, flakyVars>>

NextRetry == RetryAttempt

SpecRetry == InitRetry /\ [][NextRetry]_vars

(***************************************************************************)
(* calculate_input_hash applied to bounded tasks and files                 *)
(***************************************************************************)
EnvKeys == {<<1>>, <<2>>}
EnvValues == SeqsUpTo(Bytes, 1)
EnvMaps == UNION {[K -> EnvValues] : K \in SUBSET EnvKeys}

HashPaths == {<<1>>, <<2>>}
FileContents == SeqsOfLen(Bytes, 1)

\* what the patterns of watch and inputs match: no pattern, one pattern that
\* matches one or both files (in either order of glob's iterator), or two
\* patterns that match the same file
HashPatterns ==
    {<<>>} \cup {<<o>> : o \in UNION {Orders(S) : S \in (SUBSET HashPaths) \ {{}}}}
           \cup {<<<<f>>, <<f>>>> : f \in HashPaths}

HashTasks ==
    [cmd : SeqsUpTo(Bytes, MaxCmdLen) \ {<<>>},
     cwd : {None} \cup {Some(<<b>>) : b \in Bytes},
     env : EnvMaps,
     patterns : HashPatterns]

WatchedPaths(task) == UNION {SeqToSet(task.patterns[i]) : i \in 1..Len(task.patterns)}

InitHash ==
    /\ NoRun
    /\ requested = <<>>
    /\ pc = "hash"
    /\ IdleCache
    /\ IdleRetry
    /\ IdleStart
    /\ IdleAffected
    /\ IdleFlaky
    /\ \E task \in HashTasks, fs \in [HashPaths -> FileContents] :
            hashing = [task_name |-> <<1>>, task |-> task, fs |-> fs,
                       changed |-> "nothing", calls |-> <<>>]

HashUnchanged ==
    UNCHANGED <<inputVars, pc, graphVars, runVars, cacheVars, retryVars, startVars,
               affectedVars, flakyVars>>

\* calculate_input_hash(task, task_name, base_dir), the HashMap iterating its
\* keys in any order
CallHash ==
    /\ pc = "hash"
    /\ Len(hashing.calls) < 2
    /\ \E iteration \in Orders(DOMAIN hashing.task.env) :
            hashing' = [hashing EXCEPT !.calls =
                            Append(@, [iteration |-> iteration,
                                       key |-> calculate_input_hash(hashing.task,
                                                    hashing.task_name, iteration,
                                                    hashing.fs)])]
    /\ HashUnchanged

\* between two calls the command is edited
ChangeCommand ==
    /\ pc = "hash"
    /\ Len(hashing.calls) = 1
    /\ hashing.changed = "nothing"
    /\ \E cmd \in SeqsUpTo(Bytes, MaxCmdLen) \ {<<>>, hashing.task.cmd} :
            hashing' = [hashing EXCEPT !.task.cmd = cmd, !.changed = "cmd"]
    /\ HashUnchanged

\* between two calls one env value is edited
ChangeEnvValue ==
    /\ pc = "hash"
    /\ Len(hashing.calls) = 1
    /\ hashing.changed = "nothing"
    /\ \E k \in DOMAIN hashing.task.env :
            \E v \in EnvValues \ {hashing.task.env[k]} :
                hashing' = [hashing EXCEPT !.task.env[k] = v, !.changed = "env"]
    /\ HashUnchanged

\* between two calls one byte of one file that a pattern matches is edited
ChangeFileByte ==
    /\ pc = "hash"
    /\ Len(hashing.calls) = 1
    /\ hashing.changed = "nothing"
    /\ \E path \in WatchedPaths(hashing.task) :
            \E i \in 1..Len(hashing.fs[path]) :
                \E b \in Bytes \ {hashing.fs[path][i]} :
                    hashing' = [hashing EXCEPT !.fs[path][i] = b, !.changed = "file"]
    /\ HashUnchanged

\* between two calls the definition of a task that watches no file is
\* replaced by another one: the command, the working directory or the env
\* map differ, or several of them
ChangeDefinition ==
    /\ pc = "hash"
    /\ Len(hashing.calls) = 1
    /\ hashing.changed = "nothing"
    /\ hashing.task.patterns = <<>>
    /\ \E task \in HashTasks :
            /\ task.patterns = <<>>
            /\ task # hashing.task
            /\ hashing' = [hashing EXCEPT !.task = task, !.changed = "definition"]
    /\ HashUnchanged

NextHash ==
    \/ CallHash
    \/ ChangeCommand
    \/ ChangeEnvValue
    \/ ChangeFileByte
    \/ ChangeDefinition

SpecHash == InitHash /\ [][NextHash]_vars

(***************************************************************************)
(* src/task.rs: start_background_task with a ready_when pattern           *)
(***************************************************************************)
Streams == {"stdout", "stderr"}

\* a line the child writes: one that contains the pattern, or another one
Lines == {"ready", "other"}

\* what a reader thread sends when its stream ends (task.rs 178 for stdout;
\* the stderr thread sends nothing, task.rs 183-197)
EofMessage(stream) == IF stream = "stdout" THEN <<FALSE>> ELSE <<>>

\* the test of the Timeout arm (task.rs 217); the time is counted in waits of
\* recv_timeout
TimedOut(elapsed, ready_timeout) == elapsed > ready_timeout

\* child.kill().ok() (task.rs 218): a running child is killed, it is not
\* waited on
KillSkipped(child) == child
Kill(child) == IF child = "running" THEN "killed" ELSE child

\* child.try_wait() gave Ok(Some(status)) with !status.success() (task.rs 232-233)
ExitedWithError(child) == child = "exited_err"

\* the BackgroundProcess start_background_task returns (task.rs 254-257)
Handle(name) == [name |-> name]

\* a reader thread has something to do: a line to read, or the end of its
\* stream to see
ReaderCanStep(stream) ==
    /\ bg_start.reader[stream] = "reading"
    /\ bg_start.pipe[stream] # <<>> \/ ~bg_start.open[stream]

\* command.spawn() succeeded (task.rs 142-144), the pipes are taken, both
\* reader threads are spawned (task.rs 157-197)
InitReady ==
    /\ NoRun
    /\ requested \in {<<n>> : n \in Names}
    /\ pc = "starting"
    /\ IdleCache
    /\ IdleRetry
    /\ IdleHash
    /\ IdleAffected
    /\ IdleFlaky
    /\ \E t \in 1..MaxReadyTimeout :
            bg_start = [child |-> "running",
                        ready_timeout |-> t,
                        elapsed |-> 0,
                        open |-> [s \in Streams |-> TRUE],
                        pipe |-> [s \in Streams |-> <<>>],
                        reader |-> [s \in Streams |-> "reading"],
                        channel |-> <<>>,
                        written |-> 0,
                        ready_written |-> FALSE]

ReadyUnchanged ==
    UNCHANGED <<inputVars, graphVars, level_idx, parallel_tasks, sequential, seq_idx,
                permits, holding, status, results, counters, background_processes,
                alive, start_log, kill_log, attempt_log, exit_code, cacheVars, retryVars, hashVars,
                affectedVars, flakyVars>>

\* the child writes a line on one of its streams
ChildWrites(stream, line) ==
    /\ pc = "starting"
    /\ bg_start.child = "running"
    /\ bg_start.open[stream]
    /\ bg_start.written < MaxLines
    /\ bg_start' = [bg_start EXCEPT !.pipe[stream] = Append(@, line),
                                    !.written = @ + 1,
                                    !.ready_written = @ \/ line = "ready"]
    /\ UNCHANGED <<pc, ret>>
    /\ ReadyUnchanged

\* the child closes one of its streams and goes on running
ChildCloses(stream) ==
    /\ pc = "starting"
    /\ bg_start.child = "running"
    /\ bg_start.open[stream]
    /\ bg_start' = [bg_start EXCEPT !.open[stream] = FALSE]
    /\ UNCHANGED <<pc, ret>>
    /\ ReadyUnchanged

\* the child exits, with or without success; its streams end
ChildExits(success) ==
    /\ pc = "starting"
    /\ bg_start.child = "running"
    /\ bg_start' = [bg_start EXCEPT !.child = IF success THEN "exited_ok" ELSE "exited_err",
                                    !.open = [s \in Streams |-> FALSE]]
    /\ UNCHANGED <<pc, ret>>
    /\ ReadyUnchanged

\* one round of a reader thread (task.rs 165-179, 183-197): a line with the
\* pattern sends true and ends the thread, another line is skipped, the end of
\* the stream ends the thread, which sends false if it read stdout
ReaderReads(stream) ==
    /\ pc = "starting"
    /\ ReaderCanStep(stream)
    /\ IF bg_start.pipe[stream] # <<>>
       THEN IF Head(bg_start.pipe[stream]) = "ready"
            THEN bg_start' = [bg_start EXCEPT !.pipe[stream] = Tail(@),
                                              !.channel = Append(@, TRUE),
                                              !.reader[stream] = "done"]
            ELSE bg_start' = [bg_start EXCEPT !.pipe[stream] = Tail(@)]
       ELSE bg_start' = [bg_start EXCEPT !.channel = @ \o EofMessage(stream),
                                         !.reader[stream] = "done"]
    /\ UNCHANGED <<pc, ret>>
    /\ ReadyUnchanged

\* rx.recv_timeout gave a message (task.rs 203-215): true returns the handle,
\* false is the error "exited before becoming ready"
Recv ==
    /\ pc = "starting"
    /\ bg_start.channel # <<>>
    /\ bg_start' = [bg_start EXCEPT !.channel = Tail(@)]
    /\ ret' = IF Head(bg_start.channel)
              THEN Ok(Handle(requested[1]))
              ELSE Err(<<"exited before becoming ready", requested[1]>>)
    /\ pc' = "started"
    /\ ReadyUnchanged

\* rx.recv_timeout timed out (task.rs 216-225), then the check of the child
\* (task.rs 231-236). A reader thread handles what is in its pipe well within
\* one wait of 100 ms, so the wait times out only when neither has anything
\* to do.
RecvTimeout ==
    /\ pc = "starting"
    /\ bg_start.channel = <<>>
    /\ \A s \in Streams : ~ReaderCanStep(s)
    /\ LET elapsed == bg_start.elapsed + 1
       IN  IF TimedOut(elapsed, bg_start.ready_timeout)
           THEN /\ bg_start' = [bg_start EXCEPT !.elapsed = elapsed,
                                                !.child = Kill(@)]
                /\ ret' = Err(<<"timed out waiting for ready", requested[1]>>)
                /\ pc' = "started"
           ELSE IF ExitedWithError(bg_start.child)
           THEN /\ bg_start' = [bg_start EXCEPT !.elapsed = elapsed]
                /\ ret' = Err(<<"exited with error", requested[1]>>)
                /\ pc' = "started"
           ELSE /\ bg_start' = [bg_start EXCEPT !.elapsed = elapsed]
                /\ UNCHANGED <<pc, ret>>
    /\ ReadyUnchanged

NextReady ==
    \/ \E stream \in Streams, line \in Lines : ChildWrites(stream, line)
    \/ \E stream \in Streams : ChildCloses(stream)
    \/ \E success \in BOOLEAN : ChildExits(success)
    \/ \E stream \in Streams : ReaderReads(stream)
    \/ Recv
    \/ RecvTimeout

SpecReady == InitReady /\ [][NextReady]_vars

(***************************************************************************)
(* src/execution/runner.rs, src/main.rs: one run                           *)
(***************************************************************************)
\* the names a task lists in depends_on
DepsOf(T, n) == IF n \in DOMAIN T THEN SeqToSet(T[n].depends_on) ELSE {}

\* least set that contains S and the depends_on names of its tasks
RECURSIVE ClosedUnder(_, _)
ClosedUnder(T, S) ==
    LET next == S \cup UNION {DepsOf(T, n) : n \in S}
    IN  IF next = S THEN S ELSE ClosedUnder(T, next)

\* the required closure of the requested names
Closure(T, names) == ClosedUnder(T, SeqToSet(names))

\* tasks a run reads: those its requested names reach
Reached(T, names) ==
    LET c == collect_required_tasks(T, names)
    IN  IF c.tag = "Ok" THEN c.value ELSE {}

\* tasks a run gets to: none when the graph is rejected (whether it is does
\* not depend on the iteration orders)
Executes(T, names) ==
    LET c == collect_required_tasks(T, names)
    IN  IF c.tag = "Err"
        THEN {}
        ELSE LET o == CHOOSE o \in Orders(c.value) : TRUE
             IN  IF SortRequired(T, c.value, o, o).tag = "Ok" THEN c.value ELSE {}

\* the run is a plain one
PlainRun(T, names, opts) ==
    opts.parallel /\ Cardinality(Executes(T, names)) >= RunPlainFrom

\* a < b < c
Before(m, n) == <<m, n>> \in {<<"a", "b">>, <<"a", "c">>, <<"b", "c">>}

\* a run compares task names for equality only, so of the well-formed task
\* maps that differ by a renaming of the tasks one is kept: the one whose
\* depends_on entries name earlier tasks. Task maps with a missing name or a
\* cycle are all kept. A task that the requested names do not lead to is never
\* read: its depends_on is the empty list.
RunDepMaps(names) ==
    {d \in DepMaps(RunMaxEdges) :
        /\ \A n \in Names \ Closure([m \in Names |-> PlainTask(d[m])], names) : d[n] = <<>>
        /\ \/ \A n \in Names : \A i \in 1..Len(d[n]) : Before(d[n][i], n)
           \/ \E n \in Names : \E i \in 1..Len(d[n]) : d[n][i] = Ghost
           \/ \E n \in Names : \E i \in 1..Len(d[n]) :
                   d[n][i] = n \/ \E j \in 1..Len(d[d[n][i]]) : d[d[n][i]][j] = n}

\* the task maps of a run. Flags the run never reads, or that decide nothing,
\* keep their default: those of tasks no requested name reaches, and
\* Task.parallel in a sequential run, under a profile with parallel set and on
\* a background task (filter_parallel_tasks: (task.parallel || profile.parallel)
\* && !task.background)
\* Task.retry is read for the foreground tasks a run gets to (runner.rs 337);
\* at most RunMaxRetrying tasks ask for retries
RunFlags(d, names, opts) ==
    LET T == [m \in Names |-> PlainTask(d[m])]
        reached == Reached(T, names)
        executes == Executes(T, names)
        pars == IF ~opts.parallel \/ opts.profile_parallel THEN {{}} ELSE SUBSET reached
        retries == {r \in [Names -> 0..RunMaxRetries] :
                        /\ \A n \in Names : r[n] > 0 => n \in executes
                        /\ Cardinality({n \in Names : r[n] > 0}) <= RunMaxRetrying
                        /\ PlainRun(T, names, opts) => \A n \in Names : r[n] = 0}
    IN  {f \in [bg : SUBSET reached, par : pars, retry : retries] :
            /\ f.bg \cap f.par = {}
            /\ \A n \in f.bg : f.retry[n] = 0}

RunConfigs(names, opts) ==
    UNION {{[n \in Names |-> [depends_on |-> d[n],
                               background |-> n \in f.bg,
                               parallel |-> n \in f.par,
                               retry |-> f.retry[n],
                               retry_delay_ms |-> DefaultRetryDelayMs]] :
                f \in RunFlags(d, names, opts)} :
           d \in RunDepMaps(names)}

\* run_task(name) for any name, and run_all / run_tasks over every key
RunRequests == {<<n>> : n \in Targets} \cup {<<"a", "b", "c">>}

\* RunOptions after cmd_run merged the profile into them (main.rs 317-326);
\* the worker count is read in a parallel run only
\* include_quarantined (main.rs 257, 277) is set in sequential runs without
\* fail_fast only
RunOptionSets ==
    {o \in [parallel : BOOLEAN, profile_parallel : BOOLEAN, workers : 0..MaxWorkers,
            fail_fast : BOOLEAN, include_quarantined : BOOLEAN] :
        /\ o.profile_parallel => o.parallel
        /\ ~o.parallel => o.workers = 0
        /\ o.include_quarantined => ~o.parallel /\ ~o.fail_fast}

\* the flaky tables when the run starts: empty or, in a sequential run without
\* fail_fast and without caching, with task a recorded once as passed and once
\* as failed and then quarantined; include_quarantined is set only when there
\* is such a task
RunFlakyDbs(opts, cm) ==
    IF opts.parallel \/ opts.fail_fast \/ cm.enabled
    THEN IF opts.include_quarantined THEN {} ELSE {EmptyFlakyDb}
    ELSE {set_quarantined(
            record_test_history(record_test_history(EmptyFlakyDb, "a", "passed"),
                                "a", "failed"),
            "a", TRUE)}
         \cup (IF opts.include_quarantined THEN {} ELSE {EmptyFlakyDb})

\* the hour in which the run takes place
RunClock == 1

\* what calculate_input_hash computes for a task during the run: the task
\* definitions and the files do not change while it runs
RunInputHash == 1

\* the status CacheManager::store was called with in the earlier run
\* (runner.rs 348-350); a stored failure is looked at in sequential runs
\* without fail_fast
StoredStatuses(opts) ==
    IF opts.parallel \/ opts.fail_fast THEN {"passed"} ELSE {"passed", "failed"}

\* task_cache when the run starts: what CacheManager::store left there an hour
\* earlier for at most RunMaxCached of the tasks the run gets to
RunCaches(T, names, opts) ==
    UNION {{[k \in {<<n, RunInputHash>> : n \in hit} |->
                set_cache_entry(EmptyTable, k[1], k[2], stored, DefaultTtlHours,
                                RunClock - 1)[k]] :
            hit \in {h \in SUBSET Executes(T, names) :
                        /\ Cardinality(h) <= RunMaxCached
                        /\ PlainRun(T, names, opts) => h = {}}} :
           stored \in StoredStatuses(opts)}

\* the CacheManager of the run (runner.rs 132-138); a disabled one reads and
\* writes nothing, so the table then is the empty one
RunCacheManagers(T, names, opts) ==
    {[enabled |-> e, ttl_hours |-> DefaultTtlHours] :
        e \in IF Executes(T, names) = {}
              THEN {FALSE}
              ELSE IF PlainRun(T, names, opts) THEN {TRUE} ELSE BOOLEAN}

Init ==
    /\ requested \in RunRequests
    /\ options \in RunOptionSets
    /\ tasks \in RunConfigs(requested, options)
    /\ pc = "start"
    /\ collected = Unset
    /\ sorted = Unset
    /\ plan = Unset
    /\ IdleRun
    /\ cache_manager \in RunCacheManagers(tasks, requested, options)
    /\ task_cache \in IF cache_manager.enabled THEN RunCaches(tasks, requested, options)
                                             ELSE {EmptyTable}
    /\ clock = RunClock
    /\ cache_ret = Unset
    /\ IdleRetry
    /\ IdleStart
    /\ IdleHash
    /\ IdleAffected
    /\ flaky_db \in RunFlakyDbs(options, cache_manager)
    /\ flaky_ret = Unset

Reverse(s) == [i \in 1..Len(s) |-> s[Len(s) + 1 - i]]

\* TaskResult
TaskResult(name, success) == [name |-> name, success |-> success]

\* what a future of the parallel batch can end with: what execute_task_async
\* returned (runner.rs 447-449)
Joined == Outcomes

\* Tokio join_all over the spawned handles has every output (runner.rs 454-462)
AnyJoined(names, st) == \E t \in SeqToSet(names) : st[t] \in Joined
AllJoined(names, st) == \A t \in SeqToSet(names) : st[t] \in Joined

\* Semaphore::acquire returns (runner.rs 436)
PermitAlways(p) == TRUE
PermitAvailable(p) == p > 0

\* the test before both fail-fast breaks of the level loop (runner.rs 198, 229)
NeverStop(failed, fail_fast) == FALSE
StopAfterParallel(failed, fail_fast) == failed > 0 /\ fail_fast
StopOnFailure(failed, fail_fast) == failed > 0
StopAfterLevel(failed, fail_fast) == failed > 0 /\ fail_fast

\* the results execute_parallel_tasks returns, in the order of the handles
\* (runner.rs 465-473)
ParallelResults(names, st) ==
    LET done == SelectSeq(names, LAMBDA t : st[t] \in {"passed", "failed"})
    IN  [i \in 1..Len(done) |-> TaskResult(done[i], st[done[i]] = "passed")]

CountFailed(rs) == Len(SelectSeq(rs, LAMBDA r : ~r.success))

\* cmd_run's exit decision (main.rs 387-393) and main's (main.rs 219-224)
ExitCode(r) ==
    IF r.tag = "Err"
    THEN 1
    ELSE IF \A i \in 1..Len(r.value) : r.value[i].success THEN 0 ELSE 1

\* stop_background_processes (runner.rs 526-531): kill and wait in reverse
\* order of the Vec, then clear it
StopBackground ==
    /\ kill_log' = kill_log \o Reverse(background_processes)
    /\ alive' = alive \ SeqToSet(background_processes)
    /\ background_processes' = <<>>
    /\ start_log' = start_log

\* an error leaves execute_tasks with `?`: the Vec<BackgroundProcess> goes out
\* of scope, its elements are dropped from the first to the last and each drop
\* kills and waits (task.rs 40-44)
DropBackground ==
    /\ kill_log' = kill_log \o background_processes
    /\ alive' = alive \ SeqToSet(background_processes)
    /\ background_processes' = <<>>
    /\ start_log' = start_log

\* start_background_task returned an error (task.rs 213-236): the spawned child
\* is not in the Vec; it has exited, or was killed on the timeout, or it closed
\* its stdout and is still running. execute_single_task then stops the
\* processes of the Vec (runner.rs 327-331)
FailedStartKeepsProcesses(name) ==
    UNCHANGED <<background_processes, alive, start_log, kill_log>>
StopAfterFailedStart(name) ==
    /\ kill_log' = kill_log \o Reverse(background_processes)
    /\ \E child_left \in BOOLEAN :
           alive' = (alive \ SeqToSet(background_processes))
                        \cup (IF child_left THEN {name} ELSE {})
    /\ background_processes' = <<>>
    /\ start_log' = start_log

KeepBackground == UNCHANGED <<background_processes, alive, start_log, kill_log>>

\* tail of execute_tasks (runner.rs 261-285): stop what is left in
\* background_processes, return the results
ReturnResults(rs) ==
    /\ StopBackground
    /\ ret' = Ok(rs)
    /\ pc' = "returned"

\* end of the body of the level loop (runner.rs 229-232): break, or go on with
\* the next level, or leave the loop after the last one. `stopped` tells that
\* the sequential loop was left by its fail-fast break, which stopped the
\* background processes.
LevelEnd(rs, nfailed, stopped) ==
    IF StopAfterLevel(nfailed, options.fail_fast) \/ level_idx >= Len(plan.value)
    THEN /\ ReturnResults(rs)
         /\ level_idx' = level_idx
    ELSE /\ level_idx' = level_idx + 1
         /\ pc' = "level"
         /\ ret' = ret
         /\ IF stopped THEN StopBackground ELSE KeepBackground

\* run_task / run_tasks / run_all (runner.rs 87-104) and execute_tasks up to
\* its first level or task (runner.rs 106-159)
RunStart ==
    /\ pc = "start"
    /\ \E s \in topological_sort(tasks, requested) :
        IF s.tag = "Err"
        THEN /\ ret' = s
             /\ pc' = "returned"
             /\ UNCHANGED <<plan, level_idx, sequential, seq_idx, permits>>
        ELSE IF options.parallel
             THEN \E l \in calculate_execution_levels(tasks, s.value) :
                     /\ plan' = l
                     /\ IF l.tag = "Err"
                        THEN /\ ret' = l
                             /\ pc' = "returned"
                             /\ UNCHANGED <<level_idx, permits>>
                        ELSE /\ ret' = ret
                             /\ pc' = "level"
                             /\ level_idx' = 1
                             /\ permits' = options.workers
                     /\ UNCHANGED <<sequential, seq_idx>>
             ELSE /\ sequential' = s.value
                  /\ seq_idx' = 1
                  /\ pc' = "seq"
                  /\ UNCHANGED <<plan, level_idx, permits, ret>>
    /\ UNCHANGED <<inputVars, cacheVars, retryVars, startVars, hashVars, affectedVars, flakyVars, attempt_log,
                   collected, sorted, parallel_tasks, holding, status, results,
                   counters, background_processes, alive, start_log, kill_log, exit_code>>

\* head of the level loop (runner.rs 161-187): split the level, spawn one
\* future per task of the parallel batch (runner.rs 414-451)
LevelBegin ==
    /\ pc = "level"
    /\ LET f == filter_parallel_tasks(tasks, plan.value[level_idx], options.profile_parallel)
           spawned == {t \in SeqToSet(f.parallel) : ~tasks[t].background}
       IN  /\ parallel_tasks' = f.parallel
           /\ sequential' = f.sequential
           /\ seq_idx' = 1
           /\ status' = [t \in Names |-> IF t \in spawned THEN "spawned" ELSE status[t]]
           /\ pc' = IF f.parallel # <<>> THEN "parallel" ELSE "seq"
    /\ UNCHANGED <<inputVars, cacheVars, retryVars, startVars, hashVars, affectedVars, flakyVars, attempt_log,
                   graphVars, level_idx, permits, holding, results, counters,
                   background_processes, alive, start_log, kill_log, ret, exit_code>>

\* a spawned future gets its permit and runs the command (runner.rs 434-447)
Acquire(t) ==
    /\ pc = "parallel"
    /\ status[t] = "spawned"
    /\ PermitAvailable(permits)
    /\ permits' = permits - 1
    /\ holding' = holding \cup {t}
    /\ status' = [status EXCEPT ![t] = "running"]
    /\ UNCHANGED <<inputVars, cacheVars, retryVars, startVars, hashVars, affectedVars, flakyVars, attempt_log,
                   graphVars, pc, level_idx, parallel_tasks, sequential, seq_idx,
                   results, counters, background_processes, alive, start_log, kill_log, ret, exit_code>>

\* execute_task_async of a parallel task returns: the command exited with or
\* without success, or it could not be run (task.rs 292-294); the future ends
\* and drops its permit (runner.rs 447-450, task.rs 261-323)
Complete(t) ==
    /\ status[t] = "running"
    /\ t \in holding
    /\ \E outcome \in Joined :
            /\ status' = [status EXCEPT ![t] = outcome]
            /\ attempt_log' = [attempt_log EXCEPT ![t] = Append(@, outcome)]
    /\ holding' = holding \ {t}
    /\ permits' = permits + 1
    /\ UNCHANGED <<inputVars, cacheVars, retryVars, startVars, hashVars, affectedVars, flakyVars,
                   graphVars, pc, level_idx, parallel_tasks, sequential, seq_idx,
                   results, counters, background_processes, alive, start_log, kill_log, ret, exit_code>>

\* join_all returned: count and keep the results, fail-fast break
\* (runner.rs 189-202, 453-473)
JoinAll ==
    /\ pc = "parallel"
    /\ AllJoined(parallel_tasks, status)
    /\ LET rs == ParallelResults(parallel_tasks, status)
           nfail == counters.failed + CountFailed(rs)
       IN  /\ results' = results \o rs
           /\ counters' = [counters EXCEPT !.passed = @ + Len(rs) - CountFailed(rs),
                                           !.failed = nfail]
           /\ IF StopAfterParallel(nfail, options.fail_fast)
              THEN ReturnResults(results \o rs)
              ELSE KeepBackground /\ pc' = "seq" /\ ret' = ret
    /\ UNCHANGED <<inputVars, cacheVars, retryVars, startVars, hashVars, affectedVars, flakyVars, attempt_log,
                   graphVars, level_idx, parallel_tasks, sequential, seq_idx,
                   permits, holding, status, exit_code>>

\* the errors of the database statements behind CacheManager::check and
\* CacheManager::store (db/cache.rs 25-34 and 66-76), as execute_tasks returns
\* them
CacheLookupFailed == "cache lookup failed"
CacheStoreFailed == "cache store failed"

\* the cache check of execute_single_task (runner.rs 299-311)
CacheHit(name) ==
    CacheManagerCheck(cache_manager, task_cache, name, RunInputHash, clock).tag = "Some"

\* execute_single_task up to the start of a foreground command: cache check,
\* background start (runner.rs 287-337); the caller counts Ok(None) as cached
\* (runner.rs 224-226, 255-257)
SeqBegin ==
    /\ pc = "seq"
    /\ seq_idx <= Len(sequential)
    /\ LET name == sequential[seq_idx]
       IN  /\ status[name] = "none"
           /\ \/ \* CacheManager::check returned Some
                 /\ CacheHit(name)
                 /\ status' = [status EXCEPT ![name] = "cached"]
                 /\ counters' = [counters EXCEPT !.cached = @ + 1]
                 /\ seq_idx' = seq_idx + 1
                 /\ UNCHANGED <<pc, ret>>
                 /\ KeepBackground
              \/ \* CacheManager::check returned an error (a failing statement
                 \* of get_cache_entry): `?` leaves execute_single_task and
                 \* execute_tasks (runner.rs 301, 207-211, 238-242)
                 /\ cache_manager.enabled
                 /\ status' = status
                 /\ DropBackground
                 /\ ret' = Err(<<CacheLookupFailed, name>>)
                 /\ pc' = "returned"
                 /\ UNCHANGED <<counters, seq_idx>>
              \/ \* start_background_task returned the process
                 /\ ~CacheHit(name)
                 /\ tasks[name].background
                 /\ status' = [status EXCEPT ![name] = "background"]
                 /\ background_processes' = Append(background_processes, name)
                 /\ alive' = alive \cup {name}
                 /\ start_log' = Append(start_log, name)
                 /\ counters' = [counters EXCEPT !.cached = @ + 1]
                 /\ seq_idx' = seq_idx + 1
                 /\ UNCHANGED <<pc, ret, kill_log>>
              \/ \* start_background_task returned an error
                 /\ ~CacheHit(name)
                 /\ tasks[name].background
                 /\ status' = [status EXCEPT ![name] = "bgfailed"]
                 /\ StopAfterFailedStart(name)
                 /\ ret' = Err(<<"Background task failed to start", name>>)
                 /\ pc' = "returned"
                 /\ UNCHANGED <<counters, seq_idx>>
              \/ \* execute_task / execute_with_retry runs the command
                 /\ ~CacheHit(name)
                 /\ ~tasks[name].background
                 /\ status' = [status EXCEPT ![name] = "running"]
                 /\ UNCHANGED <<pc, ret, counters, seq_idx>>
                 /\ KeepBackground
    /\ UNCHANGED <<inputVars, cacheVars, retryVars, startVars, hashVars, affectedVars, flakyVars, attempt_log,
                   graphVars, level_idx, parallel_tasks, sequential, permits,
                   holding, results, exit_code>>

\* after an attempt of a foreground task that ended with `outcome`, its
\* attempts counted: execute_with_retry goes round its loop again (runner.rs
\* 339-343, retry.rs 72-91)
AnotherAttempt(task, attempts, outcome) ==
    /\ outcome = "failed"
    /\ RetryConfigFrom(task).max_retries > 0
    /\ ~RetryExhausted(attempts, RetryConfigFrom(task))

\* the foreground command exits or could not be run: the rest of
\* execute_with_retry / execute_task, of execute_single_task and the caller's
\* bookkeeping (runner.rs 339-400, 213-226, 243-257)
SeqEnd ==
    /\ pc = "seq"
    /\ seq_idx <= Len(sequential)
    /\ LET name == sequential[seq_idx]
           attempts == Len(attempt_log[name]) + 1
       IN  /\ status[name] = "running"
           /\ \E outcome \in Outcomes, stored \in BOOLEAN :
                /\ attempt_log' = [attempt_log EXCEPT ![name] = Append(@, outcome)]
                /\ IF outcome = "errored"
                   THEN \* execute_task returned Err: `?` leaves execute_single_task
                        \* and execute_tasks
                        /\ status' = [status EXCEPT ![name] = "errored"]
                        /\ DropBackground
                        /\ ret' = Err(<<"Failed to execute task", name>>)
                        /\ pc' = "returned"
                        /\ UNCHANGED <<counters, results, seq_idx, level_idx, task_cache>>
                   ELSE IF AnotherAttempt(tasks[name], attempts, outcome)
                   THEN /\ KeepBackground
                        /\ UNCHANGED <<status, counters, results, seq_idx, level_idx,
                                       task_cache, pc, ret>>
                   ELSE IF cache_manager.enabled /\ ~stored
                   THEN \* CacheManager::store returned an error: `?`
                        \* (runner.rs 350)
                        /\ status' = [status EXCEPT ![name] = outcome]
                        /\ DropBackground
                        /\ ret' = Err(<<CacheStoreFailed, name>>)
                        /\ pc' = "returned"
                        /\ UNCHANGED <<counters, results, seq_idx, level_idx, task_cache>>
                   ELSE /\ status' = [status EXCEPT ![name] = outcome]
                        /\ task_cache' = CacheManagerStore(cache_manager, task_cache, name,
                                                           RunInputHash, outcome, clock)
                        /\ IF outcome = "passed"
                           THEN /\ counters' = [counters EXCEPT !.passed = @ + 1]
                                /\ results' = Append(results, TaskResult(name, TRUE))
                                /\ seq_idx' = seq_idx + 1
                                /\ UNCHANGED <<pc, ret, level_idx>>
                                /\ KeepBackground
                           ELSE /\ counters' = [counters EXCEPT !.failed = @ + 1]
                                /\ IF options.fail_fast
                                   THEN \* stop_background_processes; break: the
                                        \* result is not pushed
                                        /\ results' = results
                                        /\ seq_idx' = seq_idx
                                        /\ IF options.parallel
                                           THEN LevelEnd(results, counters.failed + 1, TRUE)
                                           ELSE ReturnResults(results) /\ level_idx' = level_idx
                                   ELSE /\ results' = Append(results, TaskResult(name, FALSE))
                                        /\ seq_idx' = seq_idx + 1
                                        /\ UNCHANGED <<pc, ret, level_idx>>
                                        /\ KeepBackground
    /\ UNCHANGED <<inputVars, clock, cache_manager, cache_ret, retryVars, startVars, hashVars, affectedVars, flakyVars, graphVars,
                   parallel_tasks, sequential, permits, holding, exit_code>>

\* the sequential loop ran out of tasks: end of the level (runner.rs 229-232)
\* or of the sequential run (runner.rs 258-285)
SeqDone ==
    /\ pc = "seq"
    /\ seq_idx > Len(sequential)
    /\ IF options.parallel
       THEN LevelEnd(results, counters.failed, FALSE)
       ELSE ReturnResults(results) /\ level_idx' = level_idx
    /\ UNCHANGED <<inputVars, cacheVars, retryVars, startVars, hashVars, affectedVars, flakyVars, attempt_log,
                   graphVars, parallel_tasks, sequential, seq_idx, permits, holding,
                   status, results, counters, exit_code>>

\* cmd_run after the runner returned, and main (main.rs 219-224, 376-394)
Exit ==
    /\ pc = "returned"
    /\ exit_code' = ExitCode(ret)
    /\ pc' = "exited"
    /\ UNCHANGED <<inputVars, cacheVars, retryVars, startVars, hashVars, affectedVars, flakyVars, attempt_log,
                   graphVars, level_idx, parallel_tasks, sequential, seq_idx,
                   permits, holding, status, results, counters, background_processes,
                   alive, start_log, kill_log, ret>>

Next ==
    \/ RunStart
    \/ LevelBegin
    \/ \E t \in Names : Acquire(t)
    \/ \E t \in Names : Complete(t)
    \/ JoinAll
    \/ SeqBegin
    \/ SeqEnd
    \/ SeqDone
    \/ Exit

Spec == Init /\ [][Next]_vars

(***************************************************************************)
(* What the claims speak about, stated without the algorithms              *)
(***************************************************************************)
AllExist(T, names) == Closure(T, names) \subseteq DOMAIN T

\* some task of the closure reaches itself through depends_on edges
Cyclic(T, names) ==
    \E n \in Closure(T, names) : DepsOf(T, n) # {} /\ n \in ClosedUnder(T, DepsOf(T, n))

\* index of the level that holds task t
LevelOf(levels, t) == CHOOSE i \in 1..Len(levels) : t \in SeqToSet(levels[i])

IsCycleError(r) == r.tag = "Err" /\ r.msg[1] \in {"Circular dependency detected in task graph", "Circular dependency detected"}

(***************************************************************************)
(* Claims on the graph functions (specification SpecGraph)                 *)
(***************************************************************************)
\* C1: for an acyclic task map and requested names that all exist,
\* topological_sort returns each task of the required closure exactly once and
\* every task at a strictly later index than each of its dependencies.
C1_TopologicalOrder ==
    (sorted.tag # "Unset" /\ AllExist(tasks, requested) /\ ~Cyclic(tasks, requested)) =>
        /\ sorted.tag = "Ok"
        /\ Len(sorted.value) = Cardinality(Closure(tasks, requested))
        /\ SeqToSet(sorted.value) = Closure(tasks, requested)
        /\ \A i, j \in 1..Len(sorted.value) :
                sorted.value[j] \in DepsOf(tasks, sorted.value[i]) => j < i

C1_Witness ==
    /\ sorted.tag = "Ok"
    /\ Len(sorted.value) = 3
    /\ \E n \in Names : Cardinality(DepsOf(tasks, n)) = 2

\* C2: for an acyclic task map, the levels of calculate_execution_levels
\* concatenated in order hold every task of the required closure exactly once
\* and no other task.
C2_LevelsPartitionClosure ==
    (plan.tag # "Unset" /\ AllExist(tasks, requested) /\ ~Cyclic(tasks, requested)) =>
        /\ plan.tag = "Ok"
        /\ Len(Flatten(plan.value)) = Cardinality(Closure(tasks, requested))
        /\ SeqToSet(Flatten(plan.value)) = Closure(tasks, requested)

C2_Witness ==
    /\ plan.tag = "Ok"
    /\ Len(plan.value) = 2
    /\ Len(plan.value[1]) = 2
    /\ Len(requested) = 1

\* C3: in every returned plan no task depends on a task of its own level, and
\* every dependency of a task of level i lies in a level j < i.
C3_LevelsRespectDependencies ==
    plan.tag = "Ok" =>
        \A i \in 1..Len(plan.value) : \A t \in SeqToSet(plan.value[i]) :
            /\ DepsOf(tasks, t) \cap SeqToSet(plan.value[i]) = {}
            /\ \A dep \in DepsOf(tasks, t) :
                    \E j \in 1..(i - 1) : dep \in SeqToSet(plan.value[j])

C3_Witness ==
    /\ plan.tag = "Ok"
    /\ Len(plan.value) = 3

\* C5: when the required subgraph has a dependency cycle (a self-dependency
\* included), topological_sort and calculate_execution_levels return the
\* circular-dependency error, never an order or plan without the cycle's tasks.
C5_CycleIsAnError ==
    (AllExist(tasks, requested) /\ Cyclic(tasks, requested)) =>
        /\ sorted.tag # "Unset" => IsCycleError(sorted)
        /\ plan.tag # "Unset" => IsCycleError(plan)

C5_Witness ==
    /\ AllExist(tasks, requested)
    /\ Cyclic(tasks, requested)
    /\ plan.tag = "Err"
    /\ \E n \in Names : n \notin DepsOf(tasks, n) /\ n \in Closure(tasks, requested)

\* C6: collect_required_tasks returns exactly the tasks reachable from the
\* requested names; when a requested or transitively referenced name is not in
\* the task map it returns the "Task not found" error that names such a task,
\* and no set.
C6_CollectIsClosureOrNotFound ==
    collected.tag # "Unset" =>
        IF AllExist(tasks, requested)
        THEN collected = Ok(Closure(tasks, requested))
        ELSE /\ collected.tag = "Err"
             /\ collected.msg[1] = "Task not found"
             /\ collected.msg[2] \in Closure(tasks, requested) \ DOMAIN tasks

C6_Witness ==
    /\ collected.tag = "Err"
    /\ Ghost \notin SeqToSet(requested)
    /\ Cardinality(Closure(tasks, requested)) = 3

\* C37: levels are maximal. In every returned plan the first level is exactly
\* the set of required tasks with no dependency inside the required set, and
\* every task of a later level has at least one dependency in the level just
\* before it: each task sits in the earliest level its dependencies allow.
C37_LevelsAreMaximal ==
    plan.tag = "Ok" =>
        LET required == SeqToSet(Flatten(plan.value))
        IN  /\ plan.value # <<>> =>
                    SeqToSet(plan.value[1]) =
                        {t \in required : DepsOf(tasks, t) \cap required = {}}
            /\ \A i \in 2..Len(plan.value) : \A t \in SeqToSet(plan.value[i]) :
                    DepsOf(tasks, t) \cap SeqToSet(plan.value[i - 1]) # {}

\* two tasks without dependencies share the first level and the third task,
\* which depends on one of them, is in the second
C37_Witness ==
    /\ plan.tag = "Ok"
    /\ Len(plan.value) = 2
    /\ Len(plan.value[1]) = 2
    /\ Len(plan.value[2]) = 1
    /\ Len(requested) > 1

(***************************************************************************)
(* Claims on a run (specification Spec)                                    *)
(***************************************************************************)
\* the command of the task, or its background process, was started
Started(t) == status[t] \in {"running", "passed", "failed", "background", "bgfailed"}

\* the run is through with the task: its command finished or could not be
\* run, it was skipped as cached, or its background process was started
Processed(t) == status[t] \in {"passed", "failed", "errored", "cached", "background"}

\* position of task t in the list the sequential loop runs over
PositionOf(list, t) == CHOOSE i \in 1..Len(list) : list[i] = t

\* C4: in a parallel run no task of a level is started before every task of
\* the earlier levels has finished, was skipped as cached or was started as a
\* background process; so no task starts before its dependencies were processed.
C4_LevelsRunInSequence ==
    (options.parallel /\ plan.tag = "Ok") =>
        \A t \in Names : Started(t) =>
            /\ \A j \in 1..(LevelOf(plan.value, t) - 1) :
                    \A u \in SeqToSet(plan.value[j]) : Processed(u)
            /\ \A dep \in DepsOf(tasks, t) : Processed(dep)

C4_Witness ==
    /\ options.parallel
    /\ plan.tag = "Ok"
    /\ \E t \in Names :
            /\ status[t] = "running"
            /\ LevelOf(plan.value, t) = 2
            /\ Cardinality(DepsOf(tasks, t)) = 2
            /\ \E d \in DepsOf(tasks, t) : status[d] = "background"
            /\ \E d \in DepsOf(tasks, t) : status[d] = "failed"

\* C7: when the requested tasks reference a missing task or contain a cycle,
\* the run returns the error before any command is executed and before any
\* background process is started.
C7_GraphErrorBeforeExecution ==
    (~AllExist(tasks, requested) \/ Cyclic(tasks, requested)) =>
        /\ pc \in {"start", "returned", "exited"}
        /\ pc # "start" => ret.tag = "Err"
        /\ \A t \in Names : status[t] = "none"
        /\ alive = {}
        /\ background_processes = <<>>

C7_Witness ==
    /\ pc = "returned"
    /\ ret.tag = "Err"
    /\ AllExist(tasks, requested)
    /\ Cyclic(tasks, requested)
    /\ \E n \in Closure(tasks, requested) : DepsOf(tasks, n) = {} /\ tasks[n].background

\* C8: in a parallel run with a worker bound W >= 1 at most W task commands
\* execute at any moment: a task of the parallel batch executes only while it
\* holds a permit, and the permit is held until its command has finished.
C8_AtMostWorkersRunning ==
    (options.parallel /\ options.workers >= 1 /\ plan.tag = "Ok") =>
        /\ Cardinality({t \in Names : status[t] = "running"}) <= options.workers
        /\ \A t \in SeqToSet(parallel_tasks) : status[t] = "running" => t \in holding
        /\ \A t \in holding : status[t] = "running"
        /\ permits >= 0
        /\ permits + Cardinality(holding) = options.workers

C8_Witness ==
    /\ options.parallel
    /\ options.workers = 1
    /\ \E t, u \in Names : status[t] = "running" /\ status[u] = "spawned"

\* C9: with fail_fast, once a task of a level has failed no task of a later
\* level is started (neither executed nor started as a background process),
\* nothing but the parallel batch of that level is still waited for, and when
\* the run has returned the background processes are torn down.
C9_FailFastStopsLaterLevels ==
    (options.fail_fast /\ \E u \in Names : status[u] = "failed") =>
        /\ pc \in {"parallel", "returned", "exited"}
        /\ \A u, t \in Names : (status[u] = "failed" /\ Started(t)) =>
                IF options.parallel
                THEN LevelOf(plan.value, t) <= LevelOf(plan.value, u)
                ELSE PositionOf(sequential, t) <= PositionOf(sequential, u)
        /\ pc \in {"returned", "exited"} =>
                alive = {} /\ background_processes = <<>>

C9_Witness ==
    /\ options.fail_fast
    /\ options.parallel
    /\ pc = "returned"
    /\ ret.tag = "Ok"
    /\ \E u \in Names : status[u] = "failed"
    /\ kill_log # <<>>
    /\ \E t \in Closure(tasks, requested) : status[t] = "none"

\* C10: a run that returned its results exits with a non-zero status if and
\* only if at least one task executed in it failed, in sequential and parallel
\* mode, with and without fail_fast.
C10_ExitStatusIffFailure ==
    (pc = "exited" /\ ret.tag = "Ok") =>
        (exit_code # 0 <=> \E t \in Names : status[t] = "failed")

\* C11: when execute_tasks has returned (after its last task, after a
\* fail-fast stop, or with an error) no background process spawned by the run
\* is still running and every process of the list has been killed and waited
\* on.
C11_BackgroundStoppedAtReturn ==
    pc \in {"returned", "exited"} =>
        /\ alive = {}
        /\ background_processes = <<>>
        /\ SeqToSet(kill_log) = SeqToSet(start_log)

\* C12: on every way a run ends (completion, fail-fast stop, error propagated
\* out of execute_tasks) the background processes have been killed in the
\* reverse of the order in which they were started.
C12_KilledInReverseStartOrder ==
    pc \in {"returned", "exited"} => kill_log = Reverse(start_log)

\* the row of task t for its current input hash was in the table before the
\* run began
HadEntry(t) ==
    /\ <<t, RunInputHash>> \in DOMAIN task_cache
    /\ task_cache[<<t, RunInputHash>>].created_at = to_rfc3339(RunClock - 1)

Executed(t) == status[t] \in {"running", "passed", "failed", "errored"}

\* C15: in every run mode a task that is not a background task is
\* cache-checked before it is executed, so a task with a valid cache entry is
\* not executed, and the result of a task that completed is stored in the
\* cache.
C15_CacheAppliedInEveryMode ==
    \A t \in Names :
        (~tasks[t].background /\ cache_manager.enabled) =>
            /\ HadEntry(t) => ~Executed(t)
            /\ status[t] \in {"passed", "failed"} =>
                    /\ <<t, RunInputHash>> \in DOMAIN task_cache
                    /\ task_cache[<<t, RunInputHash>>].status = status[t]

\* C17: in a run, a task that is not a background task, has retry = n > 0 and
\* ends as failed was attempted n + 1 times, in the sequential batch and in
\* the parallel batch of its level alike.
C17_FailedTaskWasRetried ==
    \A t \in Names :
        (~tasks[t].background /\ tasks[t].retry > 0 /\ status[t] = "failed") =>
            Len(attempt_log[t]) = tasks[t].retry + 1

ResultsOf(t) == {i \in 1..Len(results) : results[i].name = t}

\* C18: once a parallel batch has been joined, the collected results hold
\* exactly one result for each task of the batch that was dispatched, whether
\* its command passed, failed, or could not be executed.
C18_OneResultPerBatchTask ==
    pc # "parallel" =>
        \A t \in SeqToSet(parallel_tasks) :
            status[t] \in Joined => Cardinality(ResultsOf(t)) = 1

\* C19: the result list a run returns holds exactly one TaskResult for every
\* foreground task that was executed and passed or failed, the task whose
\* failure stopped the run under fail-fast included, and none for a task
\* skipped by a cache hit; passed + failed is the number of results.
C19_OneResultPerExecutedTask ==
    (pc \in {"returned", "exited"} /\ ret.tag = "Ok") =>
        /\ \A t \in Names :
                /\ status[t] \in {"passed", "failed"} => Cardinality(ResultsOf(t)) = 1
                /\ status[t] = "cached" => ResultsOf(t) = {}
        /\ ret.value = results
        /\ counters.passed + counters.failed = Len(results)

\* C20: at the end of a run the cached count is the number of tasks skipped
\* because of a cache hit; a started background task is not counted, so a run
\* of background tasks only ends with no result and a cached count of zero.
C20_CachedCountsCacheHits ==
    pc \in {"returned", "exited"} =>
        counters.cached = Cardinality({t \in Names : status[t] = "cached"})

Occurrences(list, t) == Cardinality({i \in 1..Len(list) : list[i] = t})

\* C21: without fail-fast, a run that returned without an error has processed
\* every task of the required closure exactly once (executed, skipped as
\* cached, or started as a background process), the tasks of the levels after
\* a failed task included.
C21_FailureDoesNotStopRun ==
    (pc \in {"returned", "exited"} /\ ret.tag = "Ok" /\ ~options.fail_fast) =>
        \A t \in Closure(tasks, requested) :
            /\ Processed(t)
            /\ Cardinality(ResultsOf(t)) <= 1
            /\ Occurrences(start_log, t) <= 1
            /\ Len(attempt_log[t]) <= tasks[t].retry + 1
            /\ status[t] \in {"cached", "background"} => attempt_log[t] = <<>>

C21_Witness ==
    /\ pc = "returned"
    /\ ret.tag = "Ok"
    /\ ~options.fail_fast
    /\ options.parallel
    /\ \E t, u \in Names :
            /\ status[t] = "failed"
            /\ t \in DepsOf(tasks, u)
            /\ status[u] = "passed"

\* C22: a failing cache lookup or cache write never aborts the run: no run
\* returns the error of a cache lookup or of a cache store.
C22_CacheErrorsNotFatal ==
    pc \in {"returned", "exited"} =>
        ~(ret.tag = "Err" /\ ret.msg[1] \in {CacheLookupFailed, CacheStoreFailed})

\* C23: a parallel run configured with workers = 0 still makes progress: as
\* long as it has not ended, some step of it can be taken (a dispatched task
\* gets a permit, a command finishes, the batch is joined, ...), so with
\* commands that terminate the run terminates.
C23_ZeroWorkersStillProgress ==
    (options.parallel /\ options.workers = 0 /\ pc = "parallel") =>
        \/ ENABLED (\E t \in Names : Acquire(t))
        \/ ENABLED (\E t \in Names : Complete(t))
        \/ ENABLED JoinAll

\* C26: once the start of a background task has failed, the run has returned
\* that error, no task is running or waiting to run, and every background
\* process started earlier in the run has been killed and waited on and is out
\* of the list.
C26_FailedStartAbortsRun ==
    \A t \in Names :
        status[t] = "bgfailed" =>
            /\ pc \in {"returned", "exited"}
            /\ ret = Err(<<"Background task failed to start", t>>)
            /\ \A u \in Names : status[u] \notin {"spawned", "running"}
            /\ background_processes = <<>>
            /\ alive \subseteq {t}
            /\ SeqToSet(kill_log) = SeqToSet(start_log)
            /\ Len(kill_log) = Len(start_log)

C26_Witness ==
    /\ pc = "returned"
    /\ \E t \in Names : status[t] = "bgfailed"
    /\ Len(kill_log) = 2
    /\ alive = {}

\* C27: filter_parallel_tasks splits the level into a parallel and a
\* sequential list that are disjoint and together are the level; a task is in
\* the parallel list exactly if it is not a background task and its parallel
\* flag or the profile's is set; no background task is in the parallel list or
\* is run by the parallel pool.
C27_FilterSplitsLevel ==
    (options.parallel /\ pc \in {"parallel", "seq"}) =>
        LET level == plan.value[level_idx]
        IN  /\ SeqToSet(parallel_tasks) \cap SeqToSet(sequential) = {}
            /\ SeqToSet(parallel_tasks) \cup SeqToSet(sequential) = SeqToSet(level)
            /\ Len(parallel_tasks) + Len(sequential) = Len(level)
            /\ \A t \in SeqToSet(level) :
                    t \in SeqToSet(parallel_tasks) <=>
                        (~tasks[t].background
                            /\ (tasks[t].parallel \/ options.profile_parallel))
            /\ \A t \in Names :
                    tasks[t].background =>
                        /\ t \notin SeqToSet(parallel_tasks)
                        /\ t \notin holding
                        /\ status[t] \notin {"spawned", "running"}

C27_Witness ==
    /\ options.parallel
    /\ options.profile_parallel
    /\ pc = "parallel"
    /\ Len(parallel_tasks) = 2
    /\ \E t \in SeqToSet(sequential) : tasks[t].background

\* the rows of test_history with this test_name
HistoryRows(db, test_name) ==
    db.test_history[<<test_name, "passed">>] + db.test_history[<<test_name, "failed">>]
        + db.test_history[<<test_name, "skipped">>]

\* C31: with a database present (cmd_run always opens one), every attempt of
\* a task made during a run is recorded to the test history: a step that
\* executes the command of a task adds a row for that task to test_history.
C31_EveryAttemptRecorded ==
    [][\A n \in TestNames :
            Len(attempt_log'[n]) > Len(attempt_log[n]) =>
                HistoryRows(flaky_db', n) > HistoryRows(flaky_db, n)]_vars

\* C36: a quarantined task is left out of a run whose caller has not set
\* include_quarantined: its command is never executed and no background
\* process is started for it.
C36_QuarantinedLeftOut ==
    \A n \in TestNames :
        (is_test_quarantined(flaky_db, n) /\ ~options.include_quarantined) =>
            /\ attempt_log[n] = <<>>
            /\ Occurrences(start_log, n) = 0

\* C38: a stored failure is never a reason to skip work. A task that a run
\* skips as cached has a stored result that is not a failure: a task whose
\* last execution failed is executed again by the next run.
C38_StoredFailureNotSkipped ==
    \A n \in Names :
        (status[n] = "cached" /\ <<n, RunInputHash>> \in DOMAIN task_cache) =>
            task_cache[<<n, RunInputHash>>].status # "failed"

(***************************************************************************)
(* Claims on the cache (specification SpecCache)                           *)
(***************************************************************************)
\* the key of the last check and the hours since the row of that key was
\* stored
CheckedKey == <<cache_ret.task_name, cache_ret.input_hash>>
ElapsedSinceStore ==
    cache_ret.at - parse_from_rfc3339(task_cache[CheckedKey].created_at)

\* C13: after a result was stored for a task with a TTL, a check with the same
\* task name and input hash returns the stored status at every time before the
\* TTL has elapsed since the store and None at every time after it has elapsed.
C13_StoreThenCheckWithinTtl ==
    (cache_manager.enabled /\ cache_ret # Unset /\ CheckedKey \in DOMAIN task_cache) =>
        /\ ElapsedSinceStore < cache_manager.ttl_hours =>
                cache_ret.result = Some(CachedResult(task_cache[CheckedKey].status))
        /\ ElapsedSinceStore > cache_manager.ttl_hours =>
                cache_ret.result = None

\* C14: CacheManager::check returns a result only when caching is enabled and
\* the table holds a row for exactly this task name and input hash whose
\* expiry time has not passed at the time of the check (the clock counts whole
\* hours, the hour of the expiry itself is left open); CacheManager::store
\* writes nothing when caching is disabled.
C14_SomeOnlyForFreshExactKey ==
    /\ cache_ret # Unset =>
            (cache_ret.result.tag = "Some" =>
                /\ cache_manager.enabled
                /\ CheckedKey \in DOMAIN task_cache
                /\ parse_from_rfc3339(task_cache[CheckedKey].expires_at) >= cache_ret.at)
    /\ ~cache_manager.enabled => task_cache = EmptyTable

(***************************************************************************)
(* Claims on execute_with_retry (specification SpecRetry)                  *)
(***************************************************************************)
RetryLog == attempt_log[requested[1]]

AllFailed(log) == \A i \in 1..Len(log) : log[i] = "failed"

\* C16: execute_with_retry with max_retries = n makes attempts until the first
\* attempt that passes and at most n+1 in total: no attempt follows one that
\* passed, the loop goes on while fewer than n+1 attempts have all failed, a
\* task that always fails is attempted exactly n+1 times and the result
\* returned is that of the last attempt, and after a passing attempt the result
\* returned is that attempt's.
C16_RetryUntilPassOrExhausted ==
    LET n == retry_config.max_retries
        name == requested[1]
    IN  /\ retry_state.attempts = Len(RetryLog)
        /\ Len(RetryLog) <= n + 1
        /\ \A i \in 1..(Len(RetryLog) - 1) : RetryLog[i] = "failed"
        /\ pc = "retry" => AllFailed(RetryLog) /\ Len(RetryLog) <= n
        /\ (pc = "retried" /\ AllFailed(RetryLog)) =>
                /\ Len(RetryLog) = n + 1
                /\ ret = Ok(AttemptResult(name, FALSE, n + 1))
        /\ (pc = "retried" /\ RetryLog[Len(RetryLog)] = "passed") =>
                ret = Ok(AttemptResult(name, TRUE, Len(RetryLog)))

C16_Witness ==
    /\ pc = "retried"
    /\ retry_config.max_retries = 2
    /\ RetryLog = <<"failed", "failed", "failed">>
    /\ ret = Ok(AttemptResult(requested[1], FALSE, 3))

(***************************************************************************)
(* Claims on start_background_task (specification SpecReady)               *)
(***************************************************************************)
\* C24: if the child wrote a line containing the pattern, on stdout or on
\* stderr, before start_background_task returned, then what it returned is the
\* handle of the process, however the messages of the two reader threads
\* interleave and whether or not the other stream has ended.
C24_ReadyOnEitherStream ==
    (pc = "started" /\ bg_start.ready_written) => ret.tag = "Ok"

\* C25: start_background_task returns a handle only if a line containing the
\* pattern was written: a child that exited before any such line makes it
\* return an error, and when the time waited exceeds ready_timeout it returns
\* the timeout error and the child is no longer running (it was killed unless
\* it had exited); it never goes on waiting once that time is exceeded.
C25_NoHandleWithoutReady ==
    /\ pc = "starting" => ~TimedOut(bg_start.elapsed, bg_start.ready_timeout)
    /\ pc = "started" =>
        /\ ret.tag = "Ok" => bg_start.ready_written
        /\ (bg_start.child \in {"exited_ok", "exited_err"} /\ ~bg_start.ready_written) =>
                ret.tag = "Err"
        /\ TimedOut(bg_start.elapsed, bg_start.ready_timeout) =>
                /\ ret = Err(<<"timed out waiting for ready", requested[1]>>)
                /\ bg_start.child # "running"

C25_Witness ==
    /\ pc = "started"
    /\ ret = Err(<<"timed out waiting for ready", requested[1]>>)
    /\ bg_start.child = "killed"
    /\ bg_start.written = 2
    /\ ~bg_start.ready_written

\* C39: a failed background start leaves no untracked live process: whenever
\* start_background_task returns an error after the child was spawned, the
\* child has exited or has been killed by then.
C39_FailedStartLeavesNoProcess ==
    (pc = "started" /\ ret.tag = "Err") => bg_start.child # "running"

(***************************************************************************)
(* Claims on calculate_input_hash (specification SpecHash)                 *)
(***************************************************************************)
\* C28: two computations of the input hash for the same task name, command,
\* working directory, env map and file contents give the same key, in
\* whatever orders the env map iterated its keys.
C28_KeyDeterministic ==
    (Len(hashing.calls) = 2 /\ hashing.changed = "nothing") =>
        hashing.calls[1].key = hashing.calls[2].key

C28_Witness ==
    /\ Len(hashing.calls) = 2
    /\ hashing.changed = "nothing"
    /\ hashing.calls[1].iteration # hashing.calls[2].iteration
    /\ hashing.task.env[<<1>>] # hashing.task.env[<<2>>]
    /\ Len(hashing.task.patterns) = 1
    /\ Len(hashing.task.patterns[1]) = 2

\* C29: when only the command, only one env value, or only one byte of one
\* file matched by a watch or input pattern was changed between two
\* computations, the two keys differ.
C29_KeyChangesWithInput ==
    (Len(hashing.calls) = 2 /\ hashing.changed \in {"cmd", "env", "file"}) =>
        hashing.calls[1].key # hashing.calls[2].key

C29_Witness ==
    /\ Len(hashing.calls) = 2
    /\ hashing.changed = "file"
    /\ Cardinality(DOMAIN hashing.task.env) = 2
    /\ hashing.task.cwd # None

\* C40: the hashed byte stream determines the task definition. For a fixed
\* task name and fixed matched files, two definitions that differ in command,
\* working directory or env map never get the same cache key.
C40_KeyDeterminesDefinition ==
    (Len(hashing.calls) = 2 /\ hashing.changed = "definition") =>
        hashing.calls[1].key # hashing.calls[2].key

(***************************************************************************)
(* src/graph.rs, src/graph/affected.rs: the tasks a change affects         *)
(***************************************************************************)
\* the paths a change names
ChangedPaths == {"src/lib.rs", "README.md"}

\* a watch or inputs entry: whether glob::Pattern::new accepts it, and the
\* paths Pattern::matches accepts
GlobPatterns ==
    {[valid |-> TRUE, matches |-> {path}] : path \in ChangedPaths}
        \cup {[valid |-> FALSE, matches |-> {}]}

\* if let Ok(p) = glob::Pattern::new(pattern) { if p.matches(file_path) ..
GlobMatches(pattern, file_path) == pattern.valid /\ file_path \in pattern.matches

\* find_tasks_watching_file (graph.rs 91-106), config.tasks iterated in the
\* order iteration
find_tasks_watching_file(T, file_path, iteration) ==
    SelectSeq(iteration,
              LAMBDA name : \E i \in 1..Len(T[name].watch) :
                                GlobMatches(T[name].watch[i], file_path))

\* a dependent that is found is left out of the queue
DependentNotEnqueued(found, name) ==
    [found EXCEPT !.dependents = @ \cup {name}]

\* dependents.insert(name); queue.push_back(name) (graph.rs 117-118)
EnqueueDependent(found, name) ==
    [dependents |-> found.dependents \cup {name}, queue |-> Append(found.queue, name)]

\* the for loop over config.tasks for one queue entry (graph.rs 115-120)
RECURSIVE ScanDependents(_, _, _, _)
ScanDependents(T, current, names, found) ==
    IF names = <<>>
    THEN found
    ELSE LET name == Head(names)
         IN  ScanDependents(T, current, Tail(names),
                IF current \in SeqToSet(T[name].depends_on) /\ name \notin found.dependents
                THEN EnqueueDependent(found, name)
                ELSE found)

\* while let Some(current) = queue.pop_front() (graph.rs 114-121)
RECURSIVE DependentsLoop(_, _, _)
DependentsLoop(T, iteration, found) ==
    IF found.queue = <<>>
    THEN found.dependents
    ELSE DependentsLoop(T, iteration,
            ScanDependents(T, Head(found.queue), iteration,
                           [found EXCEPT !.queue = Tail(@)]))

\* get_dependent_tasks (graph.rs 109-124)
get_dependent_tasks(T, task_name, iteration) ==
    DependentsLoop(T, iteration, [dependents |-> {}, queue |-> <<task_name>>])

\* Ord of String on the task names
NameOrd == [a |-> 1, b |-> 2, c |-> 3]

\* Vec::sort on task names (graph/affected.rs 63)
RECURSIVE SortNames(_)
SortNames(v) ==
    IF v = <<>>
    THEN <<>>
    ELSE LET RECURSIVE Insert(_, _)
             Insert(x, sorted_vec) ==
                IF sorted_vec = <<>>
                THEN <<x>>
                ELSE IF NameOrd[Head(sorted_vec)] < NameOrd[x]
                     THEN <<Head(sorted_vec)>> \o Insert(x, Tail(sorted_vec))
                     ELSE <<x>> \o sorted_vec
         IN  Insert(Head(v), SortNames(Tail(v)))

\* the first loop of find_affected_tasks_from_files (graph/affected.rs 32-43)
AffectedByWatch(T, changed_files, iteration) ==
    UNION {UNION {{task_name} \cup get_dependent_tasks(T, task_name, iteration) :
                    task_name \in SeqToSet(find_tasks_watching_file(T, changed_files[i],
                                                                    iteration))} :
           i \in 1..Len(changed_files)}

\* its second loop (graph/affected.rs 46-60)
AffectedByInputs(T, changed_files, iteration) ==
    UNION {IF \E i \in 1..Len(T[task_name].inputs), j \in 1..Len(changed_files) :
                    GlobMatches(T[task_name].inputs[i], changed_files[j])
           THEN {task_name} \cup get_dependent_tasks(T, task_name, iteration)
           ELSE {} :
           task_name \in DOMAIN T}

\* find_affected_tasks_from_files (graph/affected.rs 26-66), config.tasks
\* iterated in the order iteration: what it can return, one value for each
\* order in which the HashSet affected can iterate
find_affected_tasks_from_files(T, changed_files, iteration) ==
    LET affected == AffectedByWatch(T, changed_files, iteration)
                        \cup AffectedByInputs(T, changed_files, iteration)
    IN  {Ok(SortNames(set_iteration)) : set_iteration \in Orders(affected)}

\* what a task says about the files it depends on: nothing, one watch
\* pattern, or one inputs pattern
WatchedTasks(deps) ==
    {[depends_on |-> deps, watch |-> <<>>, inputs |-> <<>>]}
        \cup {[depends_on |-> deps, watch |-> <<p>>, inputs |-> <<>>] : p \in GlobPatterns}
        \cup {[depends_on |-> deps, watch |-> <<>>, inputs |-> <<p>>] : p \in GlobPatterns}

InitAffected ==
    /\ options = NoOptions
    /\ collected = Unset
    /\ sorted = Unset
    /\ plan = Unset
    /\ IdleRun
    /\ requested = <<>>
    /\ pc = "affected"
    /\ IdleCache
    /\ IdleRetry
    /\ IdleStart
    /\ IdleHash
    /\ IdleFlaky
    /\ \E d \in DepMaps(AffectedMaxEdges) :
            tasks \in {T \in [Names -> UNION {WatchedTasks(d[n]) : n \in Names}] :
                            \A n \in Names : T[n].depends_on = d[n]}
    /\ \E changed_files \in SeqsUpTo(ChangedPaths, MaxChanged) :
            affected_call = [changed_files |-> changed_files, result |-> Unset]

\* find_affected_tasks_from_files(config, &changed_files)
CallAffected ==
    /\ pc = "affected"
    /\ \E iteration \in Orders(Names) :
            \E returned \in find_affected_tasks_from_files(tasks,
                                affected_call.changed_files, iteration) :
                affected_call' = [affected_call EXCEPT !.result = returned]
    /\ pc' = "affected_done"
    /\ UNCHANGED <<inputVars, graphVars, runVars, cacheVars, retryVars, startVars,
                   hashVars, flakyVars>>

NextAffected == CallAffected

SpecAffected == InitAffected /\ [][NextAffected]_vars

(***************************************************************************)
(* Claims on the affected tasks (specification SpecAffected)               *)
(***************************************************************************)
\* the tasks with a watch or inputs pattern that matches a changed file
DirectlyAffected(T, changed_files) ==
    {n \in DOMAIN T :
        \E p \in SeqToSet(T[n].watch) \cup SeqToSet(T[n].inputs) :
            \E f \in SeqToSet(changed_files) : GlobMatches(p, f)}

\* m depends on d, through one depends_on entry or a chain of them
DependsTransitively(T, m, d) == d \in ClosedUnder(T, DepsOf(T, m))

\* C30: find_affected_tasks_from_files returns, sorted and without
\* duplicates, exactly the tasks that have a watch or input pattern matching
\* a changed file together with every task that transitively depends on such
\* a task; when no pattern matches any changed file it returns nothing.
C30_AffectedIsMatchedPlusDependents ==
    pc = "affected_done" =>
        LET direct == DirectlyAffected(tasks, affected_call.changed_files)
            r == affected_call.result
        IN  /\ r.tag = "Ok"
            /\ \A i, j \in 1..Len(r.value) :
                    i < j => NameOrd[r.value[i]] < NameOrd[r.value[j]]
            /\ SeqToSet(r.value) =
                    direct \cup {m \in DOMAIN tasks :
                                    \E d \in direct : DependsTransitively(tasks, m, d)}
            /\ direct = {} => r.value = <<>>

\* a watches src/lib.rs, b depends on a, c depends on b and only c's pattern
\* would match README.md: the change of src/lib.rs gives a, b and c
C30_Witness ==
    /\ pc = "affected_done"
    /\ affected_call.changed_files = <<"src/lib.rs">>
    /\ DirectlyAffected(tasks, affected_call.changed_files) = {"a"}
    /\ tasks["b"].depends_on = <<"a">>
    /\ tasks["c"].depends_on = <<"b">>
    /\ affected_call.result = Ok(<<"a", "b", "c">>)

(***************************************************************************)
(* src/db/flaky.rs, src/execution/retry.rs: calls on the flaky tables      *)
(***************************************************************************)
\* the limits get_flaky_tests is called with, the thresholds should_quarantine
\* is called with
FlakyLimits == {1, 100}
Thresholds == {10, 40}

InitFlaky ==
    /\ NoRun
    /\ requested = <<>>
    /\ pc = "flaky"
    /\ IdleCache
    /\ IdleRetry
    /\ IdleStart
    /\ IdleHash
    /\ IdleAffected
    /\ IdleFlaky

FlakyUnchanged ==
    UNCHANGED <<inputVars, graphVars, runVars, cacheVars, retryVars, startVars,
                hashVars, affectedVars>>

Recorded(db) ==
    LET RECURSIVE Sum(_)
        Sum(S) == IF S = {} THEN 0
                  ELSE LET r == CHOOSE r \in S : TRUE
                       IN  db.test_history[r] + Sum(S \ {r})
    IN  Sum(DOMAIN db.test_history)

\* db.record_test_history(test_name, .., status, ..)
CallRecordTestHistory ==
    /\ pc = "flaky"
    /\ Recorded(flaky_db) < MaxRecorded
    /\ \E test_name \in TestNames, test_status \in HistoryStatuses :
            flaky_db' = record_test_history(flaky_db, test_name, test_status)
    /\ UNCHANGED <<pc, flaky_ret>>
    /\ FlakyUnchanged

\* db.quarantine_test(test_name), db.unquarantine_test(test_name)
CallQuarantine ==
    /\ pc = "flaky"
    /\ \E test_name \in TestNames, quarantined \in BOOLEAN :
            /\ flaky_db' = set_quarantined(flaky_db, test_name, quarantined)
            /\ flaky_db' # flaky_db
    /\ UNCHANGED <<pc, flaky_ret>>
    /\ FlakyUnchanged

\* db.get_flaky_tests(limit)
CallGetFlakyTests ==
    /\ pc = "flaky"
    /\ \E limit \in FlakyLimits :
            \E returned \in get_flaky_tests(flaky_db, limit) :
                flaky_ret' = [call |-> "get_flaky_tests", limit |-> limit,
                              result |-> returned]
    /\ pc' = "flaky_done"
    /\ UNCHANGED flaky_db
    /\ FlakyUnchanged

\* should_quarantine(&db, test_name, threshold)
CallShouldQuarantine ==
    /\ pc = "flaky"
    /\ \E test_name \in TestNames, threshold \in Thresholds :
            \E returned \in should_quarantine(flaky_db, test_name, threshold) :
                flaky_ret' = [call |-> "should_quarantine", test_name |-> test_name,
                              threshold |-> threshold, result |-> returned]
    /\ pc' = "flaky_done"
    /\ UNCHANGED flaky_db
    /\ FlakyUnchanged

\* db.is_test_quarantined(test_name)
CallIsTestQuarantined ==
    /\ pc = "flaky"
    /\ \E test_name \in TestNames :
            flaky_ret' = [call |-> "is_test_quarantined", test_name |-> test_name,
                          result |-> is_test_quarantined(flaky_db, test_name)]
    /\ pc' = "flaky_done"
    /\ UNCHANGED flaky_db
    /\ FlakyUnchanged

NextFlaky ==
    \/ CallRecordTestHistory
    \/ CallQuarantine
    \/ CallGetFlakyTests
    \/ CallShouldQuarantine
    \/ CallIsTestQuarantined

SpecFlaky == InitFlaky /\ [][NextFlaky]_vars

(***************************************************************************)
(* src/execution/retry.rs: execute_with_flaky_tracking                     *)
(***************************************************************************)
\* a pass alone is taken as flaky
AnyPass(attempt_results) == \E i \in 1..Len(attempt_results) : attempt_results[i]

\* is_flaky of a passing attempt (retry.rs 154)
IsFlaky(attempt_results) ==
    /\ Len(attempt_results) > 1
    /\ \E i \in 1..Len(attempt_results) : attempt_results[i]
    /\ \E i \in 1..Len(attempt_results) : ~attempt_results[i]

\* FlakyInfo (retry.rs 151-155, 178-182)
FlakyInfo(attempts, passed_on_retry, is_flaky) ==
    [attempts |-> attempts, passed_on_retry |-> passed_on_retry, is_flaky |-> is_flaky]

\* db: Option<&Database> is Some or None; a call of record_test_history whose
\* error `let _` would discard is taken to succeed
InitTracking ==
    /\ NoRun
    /\ requested \in {<<n>> : n \in TestNames}
    /\ pc = "tracking"
    /\ IdleCache
    /\ retry_config \in [max_retries : 0..MaxRetries, delay_ms : {DefaultRetryDelayMs},
                          exponential_backoff : BOOLEAN]
    /\ \E db \in BOOLEAN :
            retry_state = [attempts |-> 0, results |-> <<>>, last_result |-> None,
                           slept |-> 0, db |-> db]
    /\ IdleStart
    /\ IdleHash
    /\ IdleAffected
    /\ IdleFlaky

\* one round of the loop of execute_with_flaky_tracking (retry.rs 111-176)
\* and, when the loop is left, the return (retry.rs 166, 184, and 133 for an
\* Err of execute_task)
TrackedAttempt ==
    /\ pc = "tracking"
    /\ LET name == requested[1]
           attempts == retry_state.attempts + 1
           slept == IF attempts > 1
                    THEN retry_state.slept + RetryDelay(attempts, retry_config)
                    ELSE retry_state.slept
       IN  \E outcome \in Outcomes :
            /\ attempt_log' = [attempt_log EXCEPT ![name] = Append(@, outcome)]
            /\ IF outcome = "errored"
               THEN /\ retry_state' = [retry_state EXCEPT !.attempts = attempts,
                                                          !.slept = slept]
                    /\ ret' = Err(<<"Failed to execute task", name>>)
                    /\ pc' = "tracked"
                    /\ UNCHANGED flaky_db
               ELSE LET success == outcome = "passed"
                        attempt_results == Append(retry_state.results, success)
                    IN  /\ flaky_db' = IF retry_state.db
                                       THEN record_test_history(flaky_db, name, outcome)
                                       ELSE flaky_db
                        /\ IF success
                           THEN /\ retry_state' =
                                        [retry_state EXCEPT !.attempts = attempts,
                                                            !.slept = slept,
                                                            !.results = attempt_results]
                                /\ ret' = Ok([result |-> AttemptResult(name, TRUE, attempts),
                                              flaky_info |->
                                                FlakyInfo(attempts, attempts > 1,
                                                          IsFlaky(attempt_results))])
                                /\ pc' = "tracked"
                           ELSE /\ retry_state' =
                                        [retry_state EXCEPT
                                            !.attempts = attempts,
                                            !.slept = slept,
                                            !.results = attempt_results,
                                            !.last_result =
                                                Some(AttemptResult(name, FALSE, attempts))]
                                /\ IF RetryExhausted(attempts, retry_config)
                                   THEN /\ ret' = Ok([result |->
                                                        retry_state'.last_result.value,
                                                      flaky_info |->
                                                        FlakyInfo(attempts, FALSE, FALSE)])
                                        /\ pc' = "tracked"
                                   ELSE UNCHANGED <<ret, pc>>
    /\ UNCHANGED <<inputVars, graphVars, level_idx, parallel_tasks, sequential, seq_idx,
                   permits, holding, status, results, counters, background_processes,
                   alive, start_log, kill_log, exit_code, cacheVars, retry_config,
                   startVars, hashVars, affectedVars, flaky_ret>>

NextTracking == TrackedAttempt

SpecTracking == InitTracking /\ [][NextTracking]_vars

(***************************************************************************)
(* Claims on execute_with_flaky_tracking (specification SpecTracking)      *)
(***************************************************************************)
\* C32: the flake flag returned by execute_with_flaky_tracking is true if and
\* only if the attempts made for the task include at least one pass and at
\* least one fail, that is when the task passed on an attempt after the first;
\* it is false when the first attempt passes and when all attempts fail.
C32_FlakyIffPassAndFail ==
    (pc = "tracked" /\ ret.tag = "Ok") =>
        LET log == attempt_log[requested[1]]
            mixed == /\ \E i \in 1..Len(log) : log[i] = "passed"
                     /\ \E i \in 1..Len(log) : log[i] = "failed"
        IN  /\ ret.value.flaky_info.is_flaky <=> mixed
            /\ mixed <=> (Len(log) > 1 /\ log[Len(log)] = "passed")
            /\ ret.value.flaky_info.attempts = Len(log)

C32_Witness ==
    /\ pc = "tracked"
    /\ ret.tag = "Ok"
    /\ ret.value.flaky_info.is_flaky
    /\ attempt_log[requested[1]] = <<"failed", "failed", "passed">>
    /\ HistoryRows(flaky_db, requested[1]) = 3

C34_FlakyIffScoreBetween ==
    (flaky_ret # Unset /\ flaky_ret.call = "get_flaky_tests" /\ flaky_ret.limit = 100) =>
        \A n \in TestNames :
            n \in SeqToSet(flaky_ret.result) <=>
                LET s == calculate_flaky_score(flaky_db, n)
                IN  RealLess(Whole(20), s) /\ RealLess(s, Whole(80))

\* C35: should_quarantine returns true only if the task has at least 10
\* recorded runs and its score is closer to 50 than the threshold; with fewer
\* than 10 runs, or with |score - 50| >= threshold, it returns false.
C35_QuarantineNeedsRunsAndDistance ==
    (flaky_ret # Unset /\ flaky_ret.call = "should_quarantine") =>
        LET n == flaky_ret.test_name
            runs == HistoryRows(flaky_db, n)
            distance == RealDistance(calculate_flaky_score(flaky_db, n), Whole(50))
            close == RealLess(distance, Whole(flaky_ret.threshold))
        IN  /\ flaky_ret.result => (runs >= 10 /\ close)
            /\ (runs < 10 \/ ~close) => ~flaky_ret.result

\* 10 runs with 4 passes (score 40) and threshold 40: quarantine
C35_Witness ==
    /\ flaky_ret # Unset
    /\ flaky_ret.call = "should_quarantine"
    /\ flaky_ret.result
    /\ flaky_ret.threshold = 40
    /\ flaky_db.flaky_tests[flaky_ret.test_name].pass_count = 4

====
